---- MODULE Spec2Model ----
(***************************************************************************)
(* Ledger store of the sharded ontology chain: the block execute/commit    *)
(* pipeline of LedgerStoreImp (ExecuteBlock, SubmitBlock, AddHeader, the   *)
(* single-slot saving semaphore, the three durable stores and recoverStore)*)
(* modelled from src/unnamed/part_002 (package ledgerstore).               *)
(*                                                                         *)
(* Abstractions.  A hash is the tuple of the hashed content (collision     *)
(* free).  A merkle root over a list of leaves is the list of leaves.  The *)
(* contract state is the list of block effects applied so far; a write-set *)
(* holds absolute values, so it is the state that results from applying    *)
(* the block to the state it was executed against.  The outcome of the     *)
(* bookkeeper/multi-signature verification of a header is the header field *)
(* SigOK.  BlockStore, StateStore and EventStore are not part of the       *)
(* sources at hand; their batch/commit behaviour is modelled from the      *)
(* specification (each store has one pending batch, CommitTo makes the     *)
(* batch durable atomically or fails leaving the store untouched).         *)
(***************************************************************************)
EXTENDS Integers, Sequences, FiniteSets, TLC

\* ---------------------------------------------------------------- bounds
MaxHeight == 2        \* largest block height a caller hands to the ledger
MaxTxs == 1           \* largest number of transactions in a block
MaxCrashes == 1       \* number of process crashes explored
MaxFaults == 1        \* number of storage errors explored
MaxPublished == 2     \* publications of one height that are told apart

\* ------------------------------------------------------ program constants
HEADER_INDEX_BATCH_SIZE == 2000
stateHashCheckHeight == 1

UINT256_EMPTY == <<>>
None == "none"          \* no error / no value (strings)
Nil == [nil |-> TRUE]    \* nil pointer (records)
Callers == {"solo", "peer"}   \* the solo proposer and one other caller
NoChainConfig == {}           \* blkInfo.NewChainConfig = nil
GenesisPeers == {"peer1"}     \* the peers of the genesis chain configuration
NewPeers == {"peer1", "peer2"}  \* the peers a later configuration announces

\* ------------------------------------------------------------- variables
VARIABLES
  currBlockHeight,       \* LedgerStoreImp.currBlockHeight
  currBlockHash,         \* LedgerStoreImp.currBlockHash
  headerIndex,           \* LedgerStoreImp.headerIndex: height -> hash
  headerCache,           \* LedgerStoreImp.headerCache: hash -> header
  storedIndexCount,      \* LedgerStoreImp.storedIndexCount
  savingBlockSemaphore,  \* number of tokens in the capacity-1 channel
  vbftPeerInfoheader,    \* LedgerStoreImp.vbftPeerInfoheader: the peer IDs
  vbftPeerInfoblock,     \* LedgerStoreImp.vbftPeerInfoblock: the peer IDs
  batch,                 \* pending batches of the three stores
  blockStore,            \* durable block store
  stateStore,            \* durable state store
  eventStore,            \* durable event store
  pc,                    \* position of each caller
  blk,                   \* block argument of each caller's call
  res,                   \* ExecuteResult held by each caller
  ret,                   \* what each caller's call returned
  boot,                  \* "running", "down" (crashed), "recovering"
  rec,                   \* loop state of recoverStore
  crashes,               \* number of crashes so far
  faults,                \* number of storage errors so far
  hist,                  \* history of the run (observations only)
  ex,                    \* executeBlock followed transaction by transaction
  xs,                    \* one cross-shard transaction on its shards
  solo,                  \* the SoloService that proposes blocks to the ledger
  hdr,                   \* verifyHeader followed on one header
  mgmt,                  \* the shard management contract's shard states
  chainmgr               \* the ChainManager with its two event loops

memVars == <<currBlockHeight, currBlockHash, headerIndex, headerCache,
             storedIndexCount, savingBlockSemaphore, batch>>
storeVars == <<blockStore, stateStore, eventStore>>
callerVars == <<pc, blk, res, ret>>
peerVars == <<vbftPeerInfoheader, vbftPeerInfoblock>>
unitVars == <<ex, xs, solo, hdr, mgmt, chainmgr>>
vars == <<currBlockHeight, currBlockHash, headerIndex, headerCache,
          storedIndexCount, savingBlockSemaphore, batch, blockStore,
          stateStore, eventStore, pc, blk, res, ret, boot, rec, crashes, faults,
          hist, vbftPeerInfoheader, vbftPeerInfoblock, ex, xs, solo, hdr, mgmt, chainmgr>>

\* ------------------------------------------------------- headers, blocks
Hash(header) ==
  <<header.Height, header.PrevBlockHash, header.Timestamp,
    header.TransactionsRoot, header.BlockRoot, header.NewChainConfig>>

ComputeMerkleRoot(leaves) == <<"root", leaves>>

\* the n transactions of a block built for a height (a transaction's hash is
\* the transaction)
TxList(height, n) == [i \in 1..n |-> <<height, i>>]

Block(height, prev, ts, n, blockRoot, sigOK) ==
  [Header |-> [Height |-> height, PrevBlockHash |-> prev, Timestamp |-> ts,
               TransactionsRoot |-> ComputeMerkleRoot(TxList(height, n)),
               BlockRoot |-> blockRoot, SigOK |-> sigOK,
               NewChainConfig |-> NoChainConfig],
   Transactions |-> TxList(height, n)]

\* the block with a consensus payload that announces the peers of a new
\* chain configuration
WithChainConfig(block, peers) ==
  [block EXCEPT !.Header.NewChainConfig = peers]

EmptyResult ==
  [Hash |-> UINT256_EMPTY, WriteSet |-> <<>>, MerkleRoot |-> UINT256_EMPTY,
   Notify |-> <<>>, ShardNotify |-> <<>>]

Put(f, k, v) == [x \in (DOMAIN f) \cup {k} |-> IF x = k THEN v ELSE f[x]]

Del(f, k) == [x \in (DOMAIN f) \ {k} |-> f[x]]

EmptyMap == [x \in {} |-> None]

NoBatch == [block |-> Nil, state |-> Nil, event |-> Nil]

\* ------------------------------------------------------ in-memory access
setHeaderIndex(index, height, blockHash) == Put(index, height, blockHash)

getHeaderIndex(height) ==
  IF height \in DOMAIN headerIndex THEN headerIndex[height] ELSE UINT256_EMPTY

GetCurrentHeaderHeight ==
  LET size == Cardinality(DOMAIN headerIndex) IN
  IF size = 0 THEN 0 ELSE size - 1

GetCurrentBlockHeight == currBlockHeight

GetCurrentBlockHash == currBlockHash

addHeaderCache(cache, header) == Put(cache, Hash(header), header)

delHeaderCache(cache, blockHash) == Del(cache, blockHash)

GetBlockHash(height) == getHeaderIndex(height)

GetHeaderByHash(blockHash) ==
  IF blockHash \in DOMAIN headerCache THEN headerCache[blockHash]
  ELSE IF blockHash \in DOMAIN blockStore.Blocks
       THEN blockStore.Blocks[blockHash].Header
       ELSE Nil

GetBlockByHash(blockHash) ==
  IF blockHash \in DOMAIN blockStore.Blocks THEN blockStore.Blocks[blockHash]
  ELSE Nil

GetBlockByHeight(height) ==
  LET blockHash == GetBlockHash(height) IN
  IF blockHash = UINT256_EMPTY THEN Nil ELSE GetBlockByHash(blockHash)

\* the notifications of a block: one for each transaction hash the event
\* store holds for the height (event logging enabled; a transaction's
\* notification is identified with the transaction)
GetEventNotifyByBlock(height) ==
  IF height \in DOMAIN eventStore.NotifyByBlock
  THEN eventStore.NotifyByBlock[height]
  ELSE <<>>

\* verifyHeader that accepts a timestamp equal to the previous header's
verifyHeaderEqualTimestamp(header) ==
  IF header.Height = 0 THEN None
  ELSE LET prevHeader == GetHeaderByHash(header.PrevBlockHash) IN
       IF prevHeader = Nil THEN "cannot find pre header"
       ELSE IF prevHeader.Height + 1 # header.Height
            THEN "block height is incorrect"
       ELSE IF prevHeader.Timestamp > header.Timestamp
            THEN "block timestamp is incorrect"
       ELSE IF ~header.SigOK THEN "signature"
       ELSE None

\* the error of verifyHeader, None when the header is accepted
verifyHeader(header) ==
  IF header.Height = 0 THEN None
  ELSE LET prevHeader == GetHeaderByHash(header.PrevBlockHash) IN
       IF prevHeader = Nil THEN "cannot find pre header"
       ELSE IF prevHeader.Height + 1 # header.Height
            THEN "block height is incorrect"
       ELSE IF prevHeader.Timestamp >= header.Timestamp
            THEN "block timestamp is incorrect"
       ELSE IF ~header.SigOK THEN "signature"
       ELSE None

\* a verifyHeader that returns the announced peer set with its error
verifyHeaderPeersAnnounced(header, vbftPeerInfo) ==
  IF header.NewChainConfig # NoChainConfig THEN header.NewChainConfig
  ELSE vbftPeerInfo

\* the peer set verifyHeader returns: the given one on every error and for a
\* header without a new chain configuration, the announced one otherwise
verifyHeaderPeers(header, vbftPeerInfo) ==
  IF header.Height = 0 \/ verifyHeader(header) # None THEN vbftPeerInfo
  ELSE IF header.NewChainConfig # NoChainConfig THEN header.NewChainConfig
  ELSE vbftPeerInfo

\* ------------------------------------------------------------ state store
GetStateMerkleRoot(height) ==
  IF height \in DOMAIN stateStore.StateRoots
  THEN stateStore.StateRoots[height] ELSE UINT256_EMPTY

GetStateMerkleRootWithNewHash(hash) ==
  ComputeMerkleRoot(Append(stateStore.DeltaTree, hash))

SubSeqFrom(s, from) == SubSeq(s, from + 1, Len(s))

GetBlockRootWithNewTxRoots(startHeight, txRoots) ==
  IF currBlockHeight > startHeight + Len(txRoots) - 1 THEN UINT256_EMPTY
  ELSE LET needs == SubSeqFrom(txRoots, currBlockHeight + 1 - startHeight) IN
       ComputeMerkleRoot(stateStore.BlockTree \o needs)

\* ------------------------------------------------------- block execution
\* the effect of a block on the contract state it is executed against
ApplyBlock(state, block) ==
  Append(state, <<block.Header.Height, Len(block.Transactions)>>)

ChangeHash(writeSet) == <<"diff", writeSet>>

calculateTotalStateHash(state) == <<"total", state>>

\* one notification per transaction (HandleTransaction)
NotifyOf(block) ==
  [i \in 1..Len(block.Transactions) |-> [TxHash |-> block.Transactions[i]]]

\* an overlay that writes through to the store under it
NewOverlayDBWritesThrough(store, writeSet) == [store EXCEPT !.State = writeSet]

\* the overlay executeBlock works on: the writes of the execution stay in
\* the overlay (they become the write-set), the store under it is read only
NewOverlayDB(store, writeSet) == store

\* the state root and hash of an ExecuteResult by the height of the block
\* relative to the state hash check height: hash is the change hash of the
\* overlay, total the accumulated hash of the whole state, extended the
\* previous state merkle root extended with the change hash
StateRootPhasesShifted(height, checkHeight, hash, total, extended) ==
  [Hash |-> IF height = checkHeight + 1 THEN total ELSE hash,
   MerkleRoot |-> IF height < checkHeight + 1 THEN UINT256_EMPTY
                  ELSE IF height = checkHeight + 1 THEN total
                  ELSE extended]

StateRootPhases(height, checkHeight, hash, total, extended) ==
  [Hash |-> IF height = checkHeight THEN total ELSE hash,
   MerkleRoot |-> IF height < checkHeight THEN UINT256_EMPTY
                  ELSE IF height = checkHeight THEN total
                  ELSE extended]

\* executeBlock against the durable state store; fault is a storage-layer
\* fault of the overlay (or of refreshGlobalParam)
executeBlock(block, fault) ==
  IF fault THEN [err |-> "fault", result |-> EmptyResult]
  ELSE
    LET writeSet == ApplyBlock(stateStore.State, block)
        hash == ChangeHash(writeSet)
        height == block.Header.Height
        total == calculateTotalStateHash(writeSet)
        roots == StateRootPhases(height, stateHashCheckHeight, hash, total,
                                 GetStateMerkleRootWithNewHash(hash))
    IN [err |-> None,
        result |->
          [Hash |-> roots.Hash,
           WriteSet |-> writeSet,
           MerkleRoot |-> roots.MerkleRoot,
           Notify |-> NotifyOf(block),
           ShardNotify |-> <<>>]]

\* --------------------------------------------------- batches of the stores
\* saveBlockToBlockStore: SaveCurrentBlock, SaveBlockHash, SaveBlock
BlockBatchOf(block) ==
  [CurrHeight |-> block.Header.Height, CurrHash |-> Hash(block.Header),
   Block |-> block]

\* saveBlockToStateStore: AddStateMerkleTreeRoot, AddBlockMerkleTreeRoot,
\* SaveCurrentBlock and the write-set
StateBatchOf(block, result) ==
  LET height == block.Header.Height
      tree == IF height < stateHashCheckHeight THEN stateStore.DeltaTree
              ELSE Append(stateStore.DeltaTree, result.Hash)
  IN [CurrHeight |-> height, CurrHash |-> Hash(block.Header),
      DeltaTree |-> tree,
      StateRoots |-> IF height < stateHashCheckHeight THEN stateStore.StateRoots
                     ELSE Put(stateStore.StateRoots, height,
                              ComputeMerkleRoot(tree)),
      BlockTree |-> Append(stateStore.BlockTree, block.Header.TransactionsRoot),
      WriteSet |-> result.WriteSet]

\* saveBlockToEventStore: SaveEventNotifyByBlock (when the block has
\* transactions) and SaveCurrentBlock
EventBatchOf(block) ==
  [CurrHeight |-> block.Header.Height, CurrHash |-> Hash(block.Header),
   NotifyByBlock |-> IF Len(block.Transactions) > 0
                     THEN Put(eventStore.NotifyByBlock, block.Header.Height,
                              block.Transactions)
                     ELSE eventStore.NotifyByBlock,
   ShardData |-> eventStore.ShardData]

\* saveCrossShardDataToStore: the shard events, meta-data events and deploy
\* events extracted from the notifications of the result are added to the
\* batch of the event store
saveCrossShardDataToStore(b, block, result) ==
  IF result.Notify = <<>> THEN b
  ELSE [b EXCEPT !.ShardData = Put(@, block.Header.Height, result.Notify)]

BlockStoreCommitTo(b) ==
  [CurrHeight |-> b.CurrHeight, CurrHash |-> b.CurrHash,
   HashAt |-> Put(blockStore.HashAt, b.CurrHeight, b.CurrHash),
   Blocks |-> Put(blockStore.Blocks, b.CurrHash, b.Block)]

\* an empty write-set writes nothing; the values of a write-set are absolute
StateStoreCommitTo(b) ==
  [CurrHeight |-> b.CurrHeight, CurrHash |-> b.CurrHash,
   State |-> IF b.WriteSet = <<>> THEN stateStore.State ELSE b.WriteSet,
   StateRoots |-> b.StateRoots, DeltaTree |-> b.DeltaTree,
   BlockTree |-> b.BlockTree]

EventStoreCommitTo(b) ==
  [CurrHeight |-> b.CurrHeight, CurrHash |-> b.CurrHash,
   NotifyByBlock |-> b.NotifyByBlock, ShardData |-> b.ShardData]

\* ------------------------------------------------------------------ Init
\* the ledger after InitLedgerStoreWithGenesisBlock on empty stores:
\* executeBlock and submitBlock of the genesis block
GenesisBlock ==
  WithChainConfig(Block(0, UINT256_EMPTY, 0, 0, UINT256_EMPTY, TRUE),
                  GenesisPeers)

GenesisHash == Hash(GenesisBlock.Header)

GenesisState == ApplyBlock(<<>>, GenesisBlock)

\* the state store after the genesis block under a state hash check height
GenesisStateStore(checkHeight) ==
  [CurrHeight |-> 0, CurrHash |-> GenesisHash,
   State |-> GenesisState,
   StateRoots |->
     IF 0 < checkHeight THEN EmptyMap
     ELSE Put(EmptyMap, 0, ComputeMerkleRoot(
              <<calculateTotalStateHash(GenesisState)>>)),
   DeltaTree |->
     IF 0 < checkHeight THEN <<>>
     ELSE <<calculateTotalStateHash(GenesisState)>>,
   BlockTree |-> <<GenesisBlock.Header.TransactionsRoot>>]

\* the history of a run: the commit a crash interrupted, the state and block
\* heights recoverStore started from, the heights it replayed, for each
\* height the state root that was recorded when SubmitBlock committed it,
\* and for each height the number of SaveBlockCompleteMsg published for it
NoHist == [interrupted |-> Nil, replayed |-> {}, from |-> Nil,
           roots |-> Put(EmptyMap, 0, UINT256_EMPTY),
           published |-> EmptyMap]

\* a publisher that delivers the message of a block twice
PublishTwice(published, height) == Put(published, height, MaxPublished)

\* DefActorPublisher.Publish of the SaveBlockCompleteMsg of a block (a
\* publisher is set); publications beyond MaxPublished are not counted
Publish(published, height) ==
  Put(published, height,
      IF height \notin DOMAIN published THEN 1
      ELSE IF published[height] < MaxPublished THEN published[height] + 1
      ELSE MaxPublished)

ForgetCrash(h) == [h EXCEPT !.interrupted = Nil, !.replayed = {}, !.from = Nil]

\* the ledger after InitLedgerStoreWithGenesisBlock on empty stores, under a
\* state hash check height
LedgerInit(checkHeight) ==
  /\ currBlockHeight = 0
  /\ currBlockHash = GenesisHash
  /\ headerIndex = Put(EmptyMap, 0, GenesisHash)
  /\ headerCache = EmptyMap
  /\ storedIndexCount = 0
  /\ savingBlockSemaphore = 0
  /\ batch = NoBatch
  /\ vbftPeerInfoheader = GenesisPeers
  /\ vbftPeerInfoblock = GenesisPeers
  /\ blockStore = [CurrHeight |-> 0, CurrHash |-> GenesisHash,
                   HashAt |-> Put(EmptyMap, 0, GenesisHash),
                   Blocks |-> Put(EmptyMap, GenesisHash, GenesisBlock)]
  /\ stateStore = GenesisStateStore(checkHeight)
  /\ eventStore = [CurrHeight |-> 0, CurrHash |-> GenesisHash,
                   NotifyByBlock |-> EmptyMap, ShardData |-> EmptyMap]
  /\ pc = [p \in Callers |-> "idle"]
  /\ blk = [p \in Callers |-> Nil]
  /\ res = [p \in Callers |-> Nil]
  /\ ret = [p \in Callers |-> None]
  /\ boot = "running"
  /\ rec = Nil
  /\ crashes = 0
  /\ faults = 0
  /\ hist = NoHist

Init ==
  /\ LedgerInit(stateHashCheckHeight)
  /\ ex = Nil
  /\ xs = Nil
  /\ solo = Nil
  /\ hdr = Nil
  /\ mgmt = Nil
  /\ chainmgr = Nil

\* ------------------------------------------------------- inputs of callers
\* the block a well-behaved proposer builds for a height with n transactions
\* (makeBlock): it extends the header the ledger indexes at the height
\* below, with a later timestamp, the block root the ledger computes for the
\* next height and a valid signature
HonestBlock(h, n) ==
  Block(h,
        IF h - 1 \in DOMAIN headerIndex THEN headerIndex[h - 1]
        ELSE UINT256_EMPTY,
        h, n,
        IF h = currBlockHeight + 1
        THEN GetBlockRootWithNewTxRoots(h, <<ComputeMerkleRoot(TxList(h, n))>>)
        ELSE UINT256_EMPTY,
        TRUE)

\* the same block with one defect: an unknown previous hash, a previous
\* header of the wrong height, a timestamp that does not increase, a wrong
\* block root, an invalid signature
DefectiveBlocks(h) ==
  LET b == HonestBlock(h, 0)
      withHeader(hd) == [Header |-> hd, Transactions |-> b.Transactions]
  IN { withHeader([b.Header EXCEPT !.PrevBlockHash = UINT256_EMPTY]),
       withHeader([b.Header EXCEPT !.PrevBlockHash = GetCurrentBlockHash]),
       withHeader([b.Header EXCEPT !.Timestamp = IF h > 0 THEN h - 1 ELSE 0]),
       withHeader([b.Header EXCEPT !.BlockRoot = UINT256_EMPTY]),
       withHeader([b.Header EXCEPT !.SigOK = FALSE]) }

\* a block that announces a new chain configuration and carries a block root
\* the ledger does not compute for it
ReconfiguringBlocks(h) ==
  LET b == WithChainConfig(HonestBlock(h, 0), NewPeers)
  IN {[b EXCEPT !.Header.BlockRoot = UINT256_EMPTY]}

\* the blocks a proposer builds for the next height
NextBlocks ==
  IF currBlockHeight < MaxHeight
  THEN {HonestBlock(currBlockHeight + 1, n) : n \in 0..MaxTxs}
  ELSE {}

\* the solo proposer executes the next block built on the current block
\* (makeBlock); the other caller executes an empty block of any height
BlocksOf(p) ==
  IF p = "solo" THEN NextBlocks
  ELSE {HonestBlock(h, 0) : h \in 0..MaxHeight}

\* the blocks the other caller submits without executing them: defective
\* blocks of the next height
UnexecutedBlocks ==
  IF currBlockHeight < MaxHeight
  THEN (DefectiveBlocks(currBlockHeight + 1)
          \cup ReconfiguringBlocks(currBlockHeight + 1))
         \ {HonestBlock(currBlockHeight + 1, 0)}
  ELSE {}

\* the headers a peer sends for the next header height
HeadersOf(h) ==
  IF h <= MaxHeight
  THEN {b.Header : b \in {HonestBlock(h, 0)} \cup DefectiveBlocks(h)}
  ELSE {}

\* what a caller keeps of an ExecuteBlock call for a SubmitBlock call:
\* genBlock gives up on any error, the other caller on a failed execution
Keeps(p, why) ==
  IF p = "solo" THEN why = "exec ok" ELSE why # "exec fault"

\* ------------------------------------------------------- storage errors
\* the outcomes of an operation on a store: TRUE is success; an error is
\* explored while fewer than MaxFaults errors have happened
Outcomes == IF faults < MaxFaults THEN BOOLEAN ELSE {TRUE}

Count(ok) == faults' = IF ok THEN faults ELSE faults + 1

\* ----------------------------------------------------- saving semaphore
\* a call that goes on without a token in the channel
passSavingBlockLock(sem) == sem

\* getSavingBlockLock blocks while the channel is full
getSavingBlockLock(sem) == sem + 1

\* a channel with room for two tokens
CanGetSavingBlockLockOfTwo(sem) == sem < 2

CanGetSavingBlockLock(sem) == sem < 1

releaseSavingBlockLock(sem) == sem - 1

InBody == {"execBody", "submitBody", "commitBlock", "commitEvent",
           "commitState", "setCurrent"}

\* what a call returns when it returns an error; "exec old", "exec ok",
\* "submit old" and "submit ok" are the returns with a nil error
StorageErrors == {"submit save", "submit block commit", "submit event commit",
                  "submit state commit"}

ErrorReturns == {"exec not next", "exec fault", "submit not next",
                 "submit verifyHeader", "submit block root"} \cup StorageErrors

\* the positions of a caller inside SubmitBlock
SubmitBody == InBody \ {"execBody"}

\* return from ExecuteBlock or SubmitBlock: the deferred release runs
Return(p, why) ==
  /\ pc' = [pc EXCEPT ![p] = "returned"]
  /\ ret' = [ret EXCEPT ![p] = why]
  /\ savingBlockSemaphore' = releaseSavingBlockLock(savingBlockSemaphore)

\* ------------------------------------------------------------ ExecuteBlock
\* a call of ExecuteBlock gets past getSavingBlockLock: a caller that finds
\* the semaphore taken waits, which is this action being disabled
CallExecuteBlock(p, block) ==
  /\ boot = "running" /\ pc[p] = "idle"
  /\ CanGetSavingBlockLock(savingBlockSemaphore)
  /\ savingBlockSemaphore' = getSavingBlockLock(savingBlockSemaphore)
  /\ pc' = [pc EXCEPT ![p] = "execBody"]
  /\ blk' = [blk EXCEPT ![p] = block]
  /\ res' = [res EXCEPT ![p] = Nil]
  /\ UNCHANGED <<currBlockHeight, currBlockHash, headerIndex, headerCache,
                 storedIndexCount, batch, storeVars, ret, boot, rec, crashes,
                 faults, hist>>
  /\ UNCHANGED peerVars
  /\ UNCHANGED unitVars

ExecuteReturn(p, result, why) ==
  /\ Return(p, why)
  /\ res' = [res EXCEPT ![p] = IF Keeps(p, why) THEN result ELSE Nil]
  /\ blk' = [blk EXCEPT ![p] = IF Keeps(p, why) THEN @ ELSE Nil]

ExecuteBlock(p) ==
  /\ boot = "running" /\ pc[p] = "execBody"
  /\ LET block == blk[p]
         blockHeight == block.Header.Height
     IN \/ /\ blockHeight <= GetCurrentBlockHeight
           /\ ExecuteReturn(p, [EmptyResult EXCEPT
                                  !.MerkleRoot = GetStateMerkleRoot(blockHeight)],
                            "exec old")
           /\ UNCHANGED <<stateStore, faults>>
        \/ /\ blockHeight > GetCurrentBlockHeight
           /\ blockHeight # GetCurrentBlockHeight + 1
           /\ ExecuteReturn(p, EmptyResult, "exec not next")
           /\ UNCHANGED <<stateStore, faults>>
        \/ /\ blockHeight = GetCurrentBlockHeight + 1
           /\ \E ok \in Outcomes :
                LET r == executeBlock(block, ~ok) IN
                /\ Count(ok)
                /\ stateStore' = NewOverlayDB(stateStore, r.result.WriteSet)
                /\ ExecuteReturn(p, r.result,
                      IF r.err = None THEN "exec ok" ELSE "exec fault")
  /\ UNCHANGED <<currBlockHeight, currBlockHash, headerIndex, headerCache,
                 storedIndexCount, batch, blockStore, eventStore, boot, rec,
                 crashes, hist>>
  /\ UNCHANGED peerVars
  /\ UNCHANGED unitVars

\* ------------------------------------------------------------- SubmitBlock
\* the caller hands the block and the result of its ExecuteBlock call to
\* SubmitBlock (genBlock does so when ExecuteBlock returned no error)
CallSubmitBlock(p) ==
  /\ boot = "running" /\ pc[p] = "returned"
  /\ blk[p] # Nil /\ res[p] # Nil
  /\ CanGetSavingBlockLock(savingBlockSemaphore)
  /\ savingBlockSemaphore' = getSavingBlockLock(savingBlockSemaphore)
  /\ pc' = [pc EXCEPT ![p] = "submitBody"]
  /\ ret' = [ret EXCEPT ![p] = None]
  /\ UNCHANGED <<currBlockHeight, currBlockHash, headerIndex, headerCache,
                 storedIndexCount, batch, storeVars, blk, res, boot, rec,
                 crashes, faults, hist>>
  /\ UNCHANGED peerVars
  /\ UNCHANGED unitVars

\* SubmitBlock of a block that was not executed, with the zero result
CallSubmitUnexecuted(p, block) ==
  /\ boot = "running" /\ pc[p] = "idle" /\ p # "solo"
  /\ CanGetSavingBlockLock(savingBlockSemaphore)
  /\ savingBlockSemaphore' = getSavingBlockLock(savingBlockSemaphore)
  /\ pc' = [pc EXCEPT ![p] = "submitBody"]
  /\ blk' = [blk EXCEPT ![p] = block]
  /\ res' = [res EXCEPT ![p] = EmptyResult]
  /\ UNCHANGED <<currBlockHeight, currBlockHash, headerIndex, headerCache,
                 storedIndexCount, batch, storeVars, ret, boot, rec, crashes,
                 faults, hist>>
  /\ UNCHANGED peerVars
  /\ UNCHANGED unitVars

\* the caller has looked at what its call returned and makes no further
\* call with it (genBlock always submits the block it executed)
Continue(p) ==
  /\ boot = "running" /\ pc[p] = "returned"
  /\ ~(p = "solo" /\ ret[p] = "exec ok")
  /\ pc' = [pc EXCEPT ![p] = "idle"]
  /\ blk' = [blk EXCEPT ![p] = Nil]
  /\ res' = [res EXCEPT ![p] = Nil]
  /\ ret' = [ret EXCEPT ![p] = None]
  /\ UNCHANGED <<memVars, storeVars, boot, rec, crashes, faults, hist>>
  /\ UNCHANGED peerVars
  /\ UNCHANGED unitVars

\* return of SubmitBlock: the caller is done with the block and the result
SubmitReturn(p, why) ==
  /\ Return(p, why)
  /\ blk' = [blk EXCEPT ![p] = Nil]
  /\ res' = [res EXCEPT ![p] = Nil]
  /\ batch' = NoBatch

\* saveHeaderIndexList: a batch of header hashes is stored once
\* HEADER_INDEX_BATCH_SIZE committed heights are not yet stored
saveHeaderIndexList(count) ==
  IF currBlockHeight - count < HEADER_INDEX_BATCH_SIZE THEN count
  ELSE count + HEADER_INDEX_BATCH_SIZE

\* height checks that answer a block at or below the current height with
\* the error of a block above the next height
SubmitHeightCheckStrict(blockHeight) ==
  IF blockHeight # GetCurrentBlockHeight + 1 THEN "submit not next" ELSE None

\* height checks without the check that drops a block at or below the
\* current height
SubmitHeightCheckNoOld(blockHeight) ==
  IF blockHeight > GetCurrentBlockHeight + 1 THEN "submit not next" ELSE None

\* the height checks of SubmitBlock: a block at or below the current height
\* is dropped and nil is returned, a block above the next height is an error
SubmitHeightCheck(blockHeight) ==
  IF blockHeight <= GetCurrentBlockHeight THEN "submit old"
  ELSE IF blockHeight # GetCurrentBlockHeight + 1 THEN "submit not next"
  ELSE None

\* SubmitBlock up to the first CommitTo of submitBlock: the height checks,
\* verifyHeader, the block root check, NewBatch on the three stores and the
\* save steps (saveOK is FALSE when a save step meets a storage error)
SubmitBlock(p) ==
  /\ boot = "running" /\ pc[p] = "submitBody"
  /\ LET block == blk[p]
         result == res[p]
         blockHeight == block.Header.Height
         blockRoot == GetBlockRootWithNewTxRoots(
                        blockHeight, <<block.Header.TransactionsRoot>>)
     IN \/ /\ SubmitHeightCheck(blockHeight) # None
           /\ SubmitReturn(p, SubmitHeightCheck(blockHeight))
           /\ UNCHANGED <<headerIndex, storedIndexCount, faults>>
        \/ /\ SubmitHeightCheck(blockHeight) = None
           /\ verifyHeader(block.Header) # None
           /\ SubmitReturn(p, "submit verifyHeader")
           /\ UNCHANGED <<headerIndex, storedIndexCount, faults>>
        \/ /\ SubmitHeightCheck(blockHeight) = None
           /\ verifyHeader(block.Header) = None
           /\ blockHeight # 0 /\ blockRoot # block.Header.BlockRoot
           /\ SubmitReturn(p, "submit block root")
           /\ UNCHANGED <<headerIndex, storedIndexCount, faults>>
        \/ /\ SubmitHeightCheck(blockHeight) = None
           /\ verifyHeader(block.Header) = None
           /\ ~(blockHeight # 0 /\ blockRoot # block.Header.BlockRoot)
           /\ headerIndex' =
                setHeaderIndex(headerIndex, blockHeight, Hash(block.Header))
           /\ storedIndexCount' = saveHeaderIndexList(storedIndexCount)
           /\ \E saveOK \in Outcomes :
                /\ Count(saveOK)
                /\ IF saveOK
                   THEN /\ batch' = [block |-> BlockBatchOf(block),
                                     state |-> StateBatchOf(block, result),
                                     event |-> saveCrossShardDataToStore(
                                       EventBatchOf(block), block, result)]
                        /\ pc' = [pc EXCEPT ![p] = "commitBlock"]
                        /\ UNCHANGED <<savingBlockSemaphore, blk, res, ret>>
                   ELSE SubmitReturn(p, "submit save")
  /\ UNCHANGED <<currBlockHeight, currBlockHash, headerCache, storeVars, boot,
                 rec, crashes, hist>>
  /\ vbftPeerInfoblock' =
       IF SubmitHeightCheck(blk[p].Header.Height) # None THEN vbftPeerInfoblock
       ELSE verifyHeaderPeers(blk[p].Header, vbftPeerInfoblock)
  /\ UNCHANGED vbftPeerInfoheader
  /\ UNCHANGED unitVars

\* the state store committed before the event store
CommitOrderStateFirst ==
  <<"commitBlock", "commitState", "commitEvent", "setCurrent">>

\* the order of the three CommitTo calls of submitBlock
CommitOrder == <<"commitBlock", "commitEvent", "commitState", "setCurrent">>

NextStage(stage) ==
  CommitOrder[(CHOOSE i \in 1..Len(CommitOrder) : CommitOrder[i] = stage) + 1]

\* blockStore.CommitTo
BlockStoreCommit(p) ==
  /\ boot = "running" /\ pc[p] = "commitBlock"
  /\ \E ok \in Outcomes :
       /\ Count(ok)
       /\ IF ok
          THEN /\ blockStore' = BlockStoreCommitTo(batch.block)
               /\ pc' = [pc EXCEPT ![p] = NextStage("commitBlock")]
               /\ UNCHANGED <<savingBlockSemaphore, batch, blk, res, ret>>
          ELSE /\ SubmitReturn(p, "submit block commit")
               /\ UNCHANGED blockStore
  /\ UNCHANGED <<currBlockHeight, currBlockHash, headerIndex, headerCache,
                 storedIndexCount, stateStore, eventStore, boot, rec, crashes,
                 hist>>
  /\ UNCHANGED peerVars
  /\ UNCHANGED unitVars

\* eventStore.CommitTo
EventStoreCommit(p) ==
  /\ boot = "running" /\ pc[p] = "commitEvent"
  /\ \E ok \in Outcomes :
       /\ Count(ok)
       /\ IF ok
          THEN /\ eventStore' = EventStoreCommitTo(batch.event)
               /\ pc' = [pc EXCEPT ![p] = NextStage("commitEvent")]
               /\ UNCHANGED <<savingBlockSemaphore, batch, blk, res, ret>>
          ELSE /\ SubmitReturn(p, "submit event commit")
               /\ UNCHANGED eventStore
  /\ UNCHANGED <<currBlockHeight, currBlockHash, headerIndex, headerCache,
                 storedIndexCount, blockStore, stateStore, boot, rec, crashes,
                 hist>>
  /\ UNCHANGED peerVars
  /\ UNCHANGED unitVars

\* the state root a committed state batch records for its height (the fixed
\* empty value below stateHashCheckHeight, where none is recorded)
RecordedRoot(b) ==
  IF b.CurrHeight \in DOMAIN b.StateRoots THEN b.StateRoots[b.CurrHeight]
  ELSE UINT256_EMPTY

\* stateStore.CommitTo
StateStoreCommit(p) ==
  /\ boot = "running" /\ pc[p] = "commitState"
  /\ \E ok \in Outcomes :
       /\ Count(ok)
       /\ IF ok
          THEN /\ stateStore' = StateStoreCommitTo(batch.state)
               /\ hist' = [hist EXCEPT !.roots =
                            Put(@, batch.state.CurrHeight,
                                RecordedRoot(batch.state))]
               /\ pc' = [pc EXCEPT ![p] = NextStage("commitState")]
               /\ UNCHANGED <<savingBlockSemaphore, batch, blk, res, ret>>
          ELSE /\ SubmitReturn(p, "submit state commit")
               /\ UNCHANGED <<stateStore, hist>>
  /\ UNCHANGED <<currBlockHeight, currBlockHash, headerIndex, headerCache,
                 storedIndexCount, blockStore, eventStore, boot, rec, crashes>>
  /\ UNCHANGED peerVars
  /\ UNCHANGED unitVars

\* a current height that is one more than the height of the block
setCurrentBlockSkips(height, blockHash) ==
  [currBlockHeight |-> height + 1, currBlockHash |-> blockHash]

setCurrentBlock(height, blockHash) ==
  [currBlockHeight |-> height, currBlockHash |-> blockHash]

\* the rest of submitBlock and of SubmitBlock after the three commits:
\* setCurrentBlock, the publication of the block-complete message,
\* delHeaderCache and the return
SubmitBlockDone(p) ==
  /\ boot = "running" /\ pc[p] = "setCurrent"
  /\ LET set == setCurrentBlock(blk[p].Header.Height, Hash(blk[p].Header))
     IN /\ currBlockHeight' = set.currBlockHeight
        /\ currBlockHash' = set.currBlockHash
  /\ headerCache' = delHeaderCache(headerCache, Hash(blk[p].Header))
  /\ hist' = [hist EXCEPT !.published = Publish(@, blk[p].Header.Height)]
  /\ SubmitReturn(p, "submit ok")
  /\ UNCHANGED <<headerIndex, storedIndexCount, storeVars, boot, rec, crashes,
                 faults>>
  /\ UNCHANGED peerVars
  /\ UNCHANGED unitVars

\* ---------------------------------------------------------------- AddHeader
\* what a call of AddHeader returns and leaves: a header of another height
\* is rejected before anything is assigned; the peer set is assigned what
\* verifyHeader returns, also when verifyHeader returns an error
AddHeaderOutcome(header) ==
  IF header.Height # GetCurrentHeaderHeight + 1
    THEN [err |-> "header height not equal next header height",
          headerCache |-> headerCache, headerIndex |-> headerIndex,
          vbftPeerInfoheader |-> vbftPeerInfoheader]
  ELSE IF verifyHeader(header) # None
    THEN [err |-> "verifyHeader error",
          headerCache |-> headerCache, headerIndex |-> headerIndex,
          vbftPeerInfoheader |-> verifyHeaderPeers(header, vbftPeerInfoheader)]
  ELSE [err |-> None,
        headerCache |-> addHeaderCache(headerCache, header),
        headerIndex |-> setHeaderIndex(headerIndex, header.Height, Hash(header)),
        vbftPeerInfoheader |-> verifyHeaderPeers(header, vbftPeerInfoheader)]

\* a header that is rejected leaves the ledger as it was: the action is
\* enabled for the headers that change something
AddHeader(header) ==
  /\ boot = "running"
  /\ AddHeaderOutcome(header).err = None
  /\ headerCache' = AddHeaderOutcome(header).headerCache
  /\ headerIndex' = AddHeaderOutcome(header).headerIndex
  /\ UNCHANGED <<currBlockHeight, currBlockHash, storedIndexCount,
                 savingBlockSemaphore, batch, storeVars, callerVars, boot, rec,
                 crashes, faults, hist>>
  /\ vbftPeerInfoheader' = AddHeaderOutcome(header).vbftPeerInfoheader
  /\ UNCHANGED vbftPeerInfoblock
  /\ UNCHANGED unitVars

\* ------------------------------------------------------- crash and restart
\* the memory of a new process: the fields NewLedgerStore sets, no caller
FreshMemory ==
  /\ currBlockHeight' = 0
  /\ currBlockHash' = UINT256_EMPTY
  /\ headerIndex' = EmptyMap
  /\ headerCache' = EmptyMap
  /\ storedIndexCount' = 0
  /\ savingBlockSemaphore' = 0
  /\ batch' = NoBatch
  /\ pc' = [p \in Callers |-> "idle"]
  /\ blk' = [p \in Callers |-> Nil]
  /\ res' = [p \in Callers |-> Nil]
  /\ ret' = [p \in Callers |-> None]
  /\ rec' = Nil
  /\ vbftPeerInfoheader' = {}
  /\ vbftPeerInfoblock' = {}

\* a commit of submitBlock is interrupted after the block-store commit and
\* before the state-store commit
InWindow(p) == pc[p] \in {"commitEvent", "commitState"}

\* what the interrupted commit would have left had it gone on
Uninterrupted(p) ==
  [Height |-> blk[p].Header.Height, Hash |-> Hash(blk[p].Header),
   stage |-> pc[p],
   stateStore |-> StateStoreCommitTo(batch.state),
   eventStore |-> EventStoreCommitTo(batch.event)]

\* the process dies: memory is lost, the stores keep what was committed
Crash ==
  /\ boot # "down"
  /\ crashes < MaxCrashes
  /\ crashes' = crashes + 1
  /\ boot' = "down"
  /\ FreshMemory
  /\ hist' = IF boot = "running"
             THEN IF \E p \in Callers : InWindow(p)
                  THEN [ForgetCrash(hist) EXCEPT !.interrupted =
                          Uninterrupted(CHOOSE p \in Callers : InWindow(p))]
                  ELSE ForgetCrash(hist)
             ELSE hist
  /\ UNCHANGED <<storeVars, faults>>
  /\ UNCHANGED unitVars

\* the heights recoverStore replays: its loop variable runs over them
RecoverFirst(stateHeight) == stateHeight

\* init of a restarted process: loadCurrentBlock, loadHeaderIndexList and
\* the start of recoverStore
Restart ==
  /\ boot = "down"
  /\ currBlockHeight' = blockStore.CurrHeight
  /\ currBlockHash' = blockStore.CurrHash
  /\ headerIndex' = [h \in 0..blockStore.CurrHeight |-> blockStore.HashAt[h]]
  /\ storedIndexCount' = 0
  /\ rec' = [i |-> RecoverFirst(stateStore.CurrHeight), phase |-> "execute"]
  /\ boot' = "recovering"
  /\ hist' = [hist EXCEPT !.replayed = {},
                          !.from = [state |-> stateStore.CurrHeight,
                                    block |-> blockStore.CurrHeight]]
  /\ UNCHANGED <<headerCache, savingBlockSemaphore, batch, storeVars,
                 callerVars, crashes, faults>>
  /\ UNCHANGED peerVars
  /\ UNCHANGED unitVars

RecoverContinues(i, blockHeight) == i < blockHeight

\* the block recoverStore loads in the iteration of loop variable i
RecoverBlock(i) == blockStore.Blocks[blockStore.HashAt[i]]

\* init fails with an error: the process does not come up
InitFails ==
  /\ boot' = "down"
  /\ FreshMemory
  /\ UNCHANGED crashes

\* one iteration of recoverStore up to eventStore.CommitTo: NewBatch on the
\* event and state stores, executeBlock, saveBlockToStateStore,
\* saveBlockToEventStore, eventStore.CommitTo
RecoverExecute ==
  /\ boot = "recovering" /\ rec.phase = "execute"
  /\ RecoverContinues(rec.i, GetCurrentBlockHeight)
  /\ LET block == RecoverBlock(rec.i) IN
     \E ok \in Outcomes :
       LET r == executeBlock(block, ~ok) IN
       /\ Count(ok)
       /\ IF r.err = None
          THEN /\ batch' = [block |-> Nil,
                         state |-> StateBatchOf(block, r.result),
                         event |-> EventBatchOf(block)]
               /\ eventStore' = EventStoreCommitTo(EventBatchOf(block))
               /\ rec' = [rec EXCEPT !.phase = "state"]
               /\ hist' = [hist EXCEPT !.replayed = @ \cup {block.Header.Height}]
               /\ UNCHANGED <<currBlockHeight, currBlockHash, headerIndex,
                              headerCache, storedIndexCount, savingBlockSemaphore,
                              callerVars, boot, crashes>>
          ELSE /\ InitFails
               /\ UNCHANGED <<eventStore, hist>>
  /\ UNCHANGED <<blockStore, stateStore>>
  /\ UNCHANGED peerVars
  /\ UNCHANGED unitVars

\* stateStore.CommitTo of the iteration
RecoverStateCommit ==
  /\ boot = "recovering" /\ rec.phase = "state"
  /\ \E ok \in Outcomes :
       /\ Count(ok)
       /\ IF ok
          THEN /\ stateStore' = StateStoreCommitTo(batch.state)
               /\ rec' = [i |-> rec.i + 1, phase |-> "execute"]
               /\ batch' = NoBatch
               /\ UNCHANGED <<currBlockHeight, currBlockHash, headerIndex,
                              headerCache, storedIndexCount, savingBlockSemaphore,
                              callerVars, boot, crashes>>
          ELSE /\ InitFails
               /\ UNCHANGED stateStore
  /\ UNCHANGED <<blockStore, eventStore, hist>>
  /\ UNCHANGED peerVars
  /\ UNCHANGED unitVars

\* recoverStore returns
RecoverDone ==
  /\ boot = "recovering" /\ rec.phase = "execute"
  /\ ~RecoverContinues(rec.i, GetCurrentBlockHeight)
  /\ boot' = "recovered"
  /\ rec' = Nil
  /\ UNCHANGED <<memVars, storeVars, callerVars, crashes, faults, hist>>
  /\ UNCHANGED peerVars
  /\ UNCHANGED unitVars

\* the chain configuration in force at a stored height: the one its header
\* announces, else the one of the header at its LastConfigBlockNum
RECURSIVE ChainConfigAt(_)
ChainConfigAt(height) ==
  LET cfg == blockStore.Blocks[blockStore.HashAt[height]].Header.NewChainConfig
  IN IF cfg # NoChainConfig \/ height = 0 THEN cfg
     ELSE ChainConfigAt(height - 1)

\* the rest of InitLedgerStoreWithGenesisBlock: the peer sets are loaded from
\* the chain configuration and the ledger serves callers
InitDone ==
  /\ boot = "recovered"
  /\ boot' = "running"
  /\ vbftPeerInfoheader' = ChainConfigAt(GetCurrentBlockHeight)
  /\ vbftPeerInfoblock' = ChainConfigAt(GetCurrentBlockHeight)
  /\ hist' = ForgetCrash(hist)
  /\ UNCHANGED <<memVars, storeVars, callerVars, rec, crashes, faults>>
  /\ UNCHANGED unitVars

\* ------------------------------------------------------------------- Next
Next ==
  \/ \E p \in Callers : \E b \in BlocksOf(p) : CallExecuteBlock(p, b)
  \/ \E p \in Callers : ExecuteBlock(p)
  \/ \E p \in Callers : CallSubmitBlock(p)
  \/ \E p \in Callers : \E b \in UnexecutedBlocks : CallSubmitUnexecuted(p, b)
  \/ \E p \in Callers : Continue(p)
  \/ \E p \in Callers : SubmitBlock(p)
  \/ \E p \in Callers : BlockStoreCommit(p)
  \/ \E p \in Callers : EventStoreCommit(p)
  \/ \E p \in Callers : StateStoreCommit(p)
  \/ \E p \in Callers : SubmitBlockDone(p)
  \/ \E h \in HeadersOf(GetCurrentHeaderHeight + 1) : AddHeader(h)
  \/ Crash
  \/ Restart
  \/ RecoverExecute
  \/ RecoverStateCommit
  \/ RecoverDone
  \/ InitDone

Spec == Init /\ [][Next]_vars

\* a step of the caller that is inside ExecuteBlock or SubmitBlock: the
\* goroutine that holds the semaphore is runnable and is scheduled
BodyStep ==
  \E p \in Callers :
    \/ ExecuteBlock(p)
    \/ SubmitBlock(p)
    \/ BlockStoreCommit(p)
    \/ EventStoreCommit(p)
    \/ StateStoreCommit(p)
    \/ SubmitBlockDone(p)

\* the callers and the peer that sends headers, in a process that does not
\* crash
NextCalls ==
  \/ \E p \in Callers : \E b \in BlocksOf(p) : CallExecuteBlock(p, b)
  \/ \E p \in Callers : CallSubmitBlock(p)
  \/ \E p \in Callers : \E b \in UnexecutedBlocks : CallSubmitUnexecuted(p, b)
  \/ \E p \in Callers : Continue(p)
  \/ \E h \in HeadersOf(GetCurrentHeaderHeight + 1) : AddHeader(h)
  \/ BodyStep

SpecFair == Init /\ [][NextCalls]_vars /\ WF_vars(BodyStep)

\* ==================================== executeBlock, transaction by transaction
\* executeBlock of one block of height 1 on the ledger after genesis,
\* followed transaction by transaction. The same block is executed twice
\* against the same pre-state, each time on a fresh overlay (run 1, then
\* run 2). The handlers of the four transaction types are outside the
\* sources at hand; a transaction records what its handler meets.
MaxShardID == 2        \* largest ShardID of an inbound group
MaxBlockTxs == 2       \* largest number of transactions in block.Transactions
MaxCheckHeight == 2    \* largest state hash check height configured

ShardIDs == 1..MaxShardID
Addresses == {"a", "b"}
Runs == {1, 2}

\* a transaction: its type, the shard it comes from (0: this shard), the
\* contract it addresses, what its handler meets ("ok"; "fail": the handler
\* returns an error; "fault": a storage fault sets the overlay's error) and
\* the cross-shard message it carries or provokes
Transaction(txType, from, to, outcome, msg) ==
  [TxType |-> txType, To |-> to, Outcome |-> outcome, Msg |-> msg,
   Hash |-> <<txType, from, to, outcome, msg>>]

\* the key of a contract's storage that a cross-shard transaction locks
KeyOf(addr) == <<addr, "key">>

\* all orders in which the elements of a set can be listed: the orders a
\* range over a Go map can produce
Orders(S) ==
  {o \in [1..Cardinality(S) -> S] :
     \A i, j \in 1..Cardinality(S) : i # j => o[i] # o[j]}

Range(seq) == {seq[i] : i \in 1..Len(seq)}

\* shard IDs left in the order the map gave them
Unsorted(ids) == ids

\* sort.Slice(ids, ToUint64 ascending)
SortByShardID(ids) ==
  CHOOSE o \in Orders(Range(ids)) :
    \A i, j \in 1..Len(o) : i < j => o[i] < o[j]

\* the shard transactions in the order the two nested loops reach them
RECURSIVE ShardTxsInOrder(_, _)
ShardTxsInOrder(shardTxs, ids) ==
  IF ids = <<>> THEN <<>>
  ELSE shardTxs[Head(ids)] \o ShardTxsInOrder(shardTxs, Tail(ids))

\* the writes of a cache committed to the overlay
Merge(overlay, writes) ==
  [k \in (DOMAIN overlay) \cup (DOMAIN writes) |->
     IF k \in DOMAIN writes THEN writes[k] ELSE overlay[k]]

\* NeoVmService.Invoke that calls a locked contract
NeverLockedToCall(lockedAddress, addr) == FALSE

\* NeoVmService.Invoke: "contract is locked to call"
LockedToCall(lockedAddress, addr) == addr \in lockedAddress

\* what the handler of a transaction leaves: its error, whether the overlay's
\* error is set, the writes in the cache, the locked sets, the state of the
\* notification and the outbound shard messages
Handler(tx, lockedAddress, lockedKeys) ==
  LET quiet == [err |-> None, fault |-> FALSE, writes |-> EmptyMap,
                lockedAddress |-> lockedAddress, lockedKeys |-> lockedKeys,
                State |-> "FAIL", ShardMsg |-> <<>>]
      done == [quiet EXCEPT !.State = "SUCCESS"]
  IN IF tx.Outcome = "fault"
       THEN [quiet EXCEPT !.err = "storage", !.fault = TRUE]
     ELSE IF tx.Outcome = "fail" THEN [quiet EXCEPT !.err = "handler"]
     ELSE IF tx.TxType \in {"Deploy", "MetaData"}
       THEN [done EXCEPT !.writes = Put(EmptyMap, <<"contract", tx.To>>,
                                        tx.Hash)]
     ELSE IF tx.TxType = "Invoke"
       THEN IF LockedToCall(lockedAddress, tx.To)
            THEN [quiet EXCEPT !.err = "contract is locked to call"]
            ELSE [done EXCEPT
                    !.writes = Put(EmptyMap, <<"storage", tx.To>>, tx.Hash),
                    !.ShardMsg = IF tx.Msg = "request"
                                 THEN <<[Type |-> "request", Tx |-> tx.Hash]>>
                                 ELSE <<>>]
     ELSE IF tx.Msg = "prepare"
       THEN [done EXCEPT
               !.lockedAddress = lockedAddress \cup {tx.To},
               !.lockedKeys = lockedKeys \cup {KeyOf(tx.To)},
               !.ShardMsg = <<[Type |-> "prepared", Tx |-> tx.Hash]>>]
     ELSE [done EXCEPT
             !.lockedAddress = lockedAddress \ {tx.To},
             !.lockedKeys = lockedKeys \ {KeyOf(tx.To)},
             !.writes = Put(EmptyMap, <<"storage", tx.To>>, tx.Hash)]

\* HandleTransaction that returns the error of the handler
HandleTransactionErrorOfHandler(handlerErr, overlayError) ==
  IF overlayError THEN "overlay" ELSE handlerErr

\* the error HandleTransaction returns: the error of the overlay; the error
\* of the handler is logged
HandleTransactionError(handlerErr, overlayError) ==
  IF overlayError THEN "overlay" ELSE None

\* HandleTransaction: the handler of the transaction's type, then
\* cache.Commit (not for MetaData)
HandleTransaction(overlay, lockedAddress, lockedKeys, tx) ==
  LET h == Handler(tx, lockedAddress, lockedKeys)
      commits == tx.TxType \in {"Deploy", "Invoke", "ShardCall"}
  IN [err |-> HandleTransactionError(h.err, h.fault),
      overlay |-> IF ~h.fault /\ commits THEN Merge(overlay, h.writes)
                  ELSE overlay,
      lockedAddress |-> h.lockedAddress,
      lockedKeys |-> h.lockedKeys,
      notify |-> [ContractEvent |-> [TxHash |-> tx.Hash, State |-> h.State],
                  ShardMsg |-> h.ShardMsg]]

\* xshardDB.SetXShardMsgInBlock, SetLockedAddress, SetLockedKeys (with
\* xshardDB.Commit): the lists are stored as they are given
SetXShardMsgInBlock(overlay, height, msgs) ==
  Put(overlay, <<"xshard", "msgs", height>>, msgs)

SetLockedAddress(overlay, addrList) ==
  Put(overlay, <<"xshard", "lockedAddress">>, addrList)

SetLockedKeys(overlay, keyList) ==
  Put(overlay, <<"xshard", "lockedKeys">>, keyList)

\* the contract and storage entries of the state under the overlay
GenesisStorage ==
  [k \in {<<"storage", a>> : a \in Addresses} |-> "v0"]

\* the contract and storage entries an iterator over the overlay meets
TotalState(overlay) ==
  LET all == Merge(GenesisStorage, overlay)
  IN [k \in {x \in DOMAIN all : x[1] \in {"contract", "storage"}} |-> all[k]]

\* --------------------------------------------------- inputs of executeBlock
IntraTxs ==
  { Transaction("Invoke", 0, "a", "ok", None),
    Transaction("Invoke", 0, "b", "ok", "request"),
    Transaction("Invoke", 0, "a", "fail", None),
    Transaction("Deploy", 0, "b", "ok", None),
    Transaction("MetaData", 0, "a", "ok", None),
    Transaction("Invoke", 0, "b", "fault", None),
    Transaction("ShardCall", 0, "a", "ok", "prepare") }

\* the lists of inbound transactions a block carries for a source shard
Groups(id) ==
  { <<Transaction("ShardCall", id, "a", "ok", "prepare")>>,
    <<Transaction("ShardCall", id, "b", "ok", "prepare")>>,
    <<Transaction("ShardCall", id, "a", "ok", "commit"),
      Transaction("ShardCall", id, "b", "fail", "prepare")>>,
    <<Transaction("Invoke", id, "a", "ok", None)>> }

ShardTxMaps ==
  UNION {{m \in [S -> UNION {Groups(id) : id \in S}] :
            \A id \in S : m[id] \in Groups(id)} : S \in SUBSET ShardIDs}

TxLists ==
  UNION {{l \in [1..n -> IntraTxs] :
            \A i, j \in 1..n : i # j => l[i] # l[j]} : n \in 0..MaxBlockTxs}

\* the locked addresses as the state store lists them; the locked keys are
\* the keys of the same contracts in the same order
LockedLists == {<<>>, <<"a">>, <<"a", "b">>, <<"b", "a">>}

NewRun ==
  [pc |-> "begin", todo |-> <<>>, i |-> 0, overlay |-> EmptyMap,
   lockedAddress |-> {}, lockedKeys |-> {}, handled |-> <<>>,
   result |-> EmptyResult, err |-> None]

InitExec ==
  /\ \E checkHeight \in 0..MaxCheckHeight :
       /\ LedgerInit(checkHeight)
       /\ \E shardTxs \in ShardTxMaps, txs \in TxLists, locked \in LockedLists :
            ex = [stateHashCheckHeight |-> checkHeight,
                  block |-> [Header |-> [Height |-> 1], ShardTxs |-> shardTxs,
                             Transactions |-> txs],
                  addrList |-> locked,
                  keyList |-> [i \in 1..Len(locked) |-> KeyOf(locked[i])],
                  run |-> [r \in Runs |-> NewRun]]
  /\ xs = Nil
  /\ solo = Nil
  /\ hdr = Nil
  /\ mgmt = Nil
  /\ chainmgr = Nil

\* ---------------------------------------------------- steps of executeBlock
Finished(r) == ex.run[r].pc \in {"done", "error"}

Turn(r) == ex # Nil /\ ~Finished(r) /\ \A q \in Runs : q < r => Finished(q)

\* where executeBlock goes on after the shard transactions in todo and the
\* first i transactions of the block
After(todo, i) ==
  IF todo # <<>> THEN "shardTxs"
  ELSE IF i < Len(ex.block.Transactions) THEN "txs"
  ELSE "finish"

ledgerVars ==
  <<currBlockHeight, currBlockHash, headerIndex, headerCache,
    storedIndexCount, savingBlockSemaphore, batch, blockStore, stateStore,
    eventStore, pc, blk, res, ret, boot, rec, crashes, faults, hist,
    vbftPeerInfoheader, vbftPeerInfoblock>>

\* executeBlock up to the loops: the overlay, refreshGlobalParam, the locked
\* lists of the state store (fault: one of the reads fails), the sorted ids
ExecBegin(r) ==
  /\ Turn(r) /\ ex.run[r].pc = "begin"
  /\ \E fault \in BOOLEAN, order \in Orders(DOMAIN ex.block.ShardTxs) :
       LET ids == SortByShardID(order)
           todo == ShardTxsInOrder(ex.block.ShardTxs, ids)
       IN ex' = [ex EXCEPT !.run[r] =
                   IF fault THEN [@ EXCEPT !.pc = "error", !.err = "storage"]
                   ELSE [@ EXCEPT !.pc = After(todo, 0),
                                  !.todo = todo,
                                  !.lockedAddress = Range(ex.addrList),
                                  !.lockedKeys = Range(ex.keyList)]]
  /\ UNCHANGED <<ledgerVars, xs, solo, hdr, mgmt, chainmgr>>

\* a check of the transaction's type that lets every type pass
AnyTxType(shardTxs, tx) == FALSE

\* the check of the transaction's type in the two loops of executeBlock:
\* only ShardCall transactions in block.ShardTxs, none in block.Transactions
WrongTxType(shardTxs, tx) ==
  IF shardTxs THEN tx.TxType # "ShardCall" ELSE tx.TxType = "ShardCall"

\* one transaction handled in a loop of executeBlock: cache.Reset, the check
\* of the transaction's type, HandleTransaction, the appends to the result
\* (result.ShardNotify stands for the local shardNotify, which the result
\* gets at the end only)
HandleIn(run, tx, wrongKind, todo, i) ==
  LET h == HandleTransaction(run.overlay, run.lockedAddress, run.lockedKeys,
                             tx)
  IN IF wrongKind
       THEN [run EXCEPT !.pc = "error", !.err = "handleTransaction failed",
                        !.result.ShardNotify = <<>>]
     ELSE IF h.err # None
       THEN [run EXCEPT !.pc = "error", !.err = h.err,
                        !.result.ShardNotify = <<>>]
     ELSE [run EXCEPT
             !.pc = After(todo, i), !.todo = todo, !.i = i,
             !.overlay = h.overlay,
             !.lockedAddress = h.lockedAddress,
             !.lockedKeys = h.lockedKeys,
             !.handled = Append(@, tx.Hash),
             !.result.Notify = Append(@, h.notify.ContractEvent),
             !.result.ShardNotify = @ \o h.notify.ShardMsg]

\* the loop over block.ShardTxs
ExecShardTx(r) ==
  /\ Turn(r) /\ ex.run[r].pc = "shardTxs"
  /\ LET run == ex.run[r]
         tx == Head(run.todo)
     IN ex' = [ex EXCEPT !.run[r] =
                 HandleIn(run, tx, WrongTxType(TRUE, tx), Tail(run.todo),
                          run.i)]
  /\ UNCHANGED <<ledgerVars, xs, solo, hdr, mgmt, chainmgr>>

\* the loop over block.Transactions
ExecTx(r) ==
  /\ Turn(r) /\ ex.run[r].pc = "txs"
  /\ LET run == ex.run[r]
         tx == ex.block.Transactions[run.i + 1]
     IN ex' = [ex EXCEPT !.run[r] =
                 HandleIn(run, tx, WrongTxType(FALSE, tx), <<>>,
                          run.i + 1)]
  /\ UNCHANGED <<ledgerVars, xs, solo, hdr, mgmt, chainmgr>>

\* the rest of executeBlock: the shard messages and the locked sets go back
\* through the overlay (the lists are rebuilt by ranging over the maps), the
\* hash, the write-set and the state root
ExecFinish(r) ==
  /\ Turn(r) /\ ex.run[r].pc = "finish"
  /\ LET run == ex.run[r]
         height == ex.block.Header.Height
     IN \E addrList \in Orders(run.lockedAddress),
           keyList \in Orders(run.lockedKeys) :
          LET overlay ==
                SetLockedKeys(
                  SetLockedAddress(
                    SetXShardMsgInBlock(run.overlay, height,
                                        run.result.ShardNotify),
                    addrList),
                  keyList)
              hash == ChangeHash(overlay)
              roots == StateRootPhases(
                         height, ex.stateHashCheckHeight, hash,
                         calculateTotalStateHash(TotalState(overlay)),
                         GetStateMerkleRootWithNewHash(hash))
          IN ex' = [ex EXCEPT !.run[r] =
                      [run EXCEPT !.pc = "done", !.overlay = overlay,
                                  !.result.Hash = roots.Hash,
                                  !.result.WriteSet = overlay,
                                  !.result.MerkleRoot = roots.MerkleRoot]]
  /\ UNCHANGED <<ledgerVars, xs, solo, hdr, mgmt, chainmgr>>

NextExec ==
  \/ \E r \in Runs : ExecBegin(r)
  \/ \E r \in Runs : ExecShardTx(r)
  \/ \E r \in Runs : ExecTx(r)
  \/ \E r \in Runs : ExecFinish(r)

SpecExec == InitExec /\ [][NextExec]_vars

\* ================================================= cross-shard transaction
\* One cross-shard transaction (one ShardTxID) of a coordinating shard that
\* makes remote invocations on participant shards. Each shard handles the
\* messages it is sent inside the block it is executing; what the block
\* changes (TxState, contract storage, locks, outbound messages) becomes
\* durable, and its messages are sent, when the block is committed. Messages
\* that were sent can be delivered any number of times. The handlers of the
\* messages are outside the sources at hand.
MaxParticipants == 2   \* number of shards besides the coordinating shard
MaxRequests == 2       \* largest number of remote invocations

Coordinator == 0
Shards == 0..MaxParticipants
TerminalStates == {"Committed", "Aborted"}
MsgTypes == {"Request", "Reply", "Prepare", "Prepared", "Commit", "Abort"}
\* the tally of the messages of one type a shard has emitted stops here
MaxSent == MaxRequests + 1

XShardMsg(type, from, to, idx, value) ==
  [Type |-> type, From |-> from, To |-> to, Idx |-> idx, Value |-> value]

\* the TxState of a ShardTxID: its state, the request that awaits its
\* reply, the replies produced for the requests handled (by index), the
\* indices whose reply was received, the accumulated notification, the
\* shards whose Prepared was received, the tentative effects, and whether
\* the shard failed to prepare
NoTxState ==
  [State |-> "Absent", PendingOutReq |-> Nil, Replies |-> EmptyMap,
   Got |-> {}, Notify |-> <<>>, Prepared |-> {}, Tentative |-> <<>>,
   Failed |-> FALSE]

\* what a shard holds: the TxState, the effects merged into contract
\* storage, the locked contracts, the notifications emitted, the outbound
\* messages of the block being executed, how many messages of each type it
\* has emitted, and whether it was delivered a Request again after it had
\* produced the Reply
NoShardState ==
  [Tx |-> NoTxState, Storage |-> <<>>, Locked |-> {}, Notify |-> <<>>,
   Outbox |-> {}, Sent |-> [t \in MsgTypes |-> 0], Redelivered |-> FALSE]

\* the shard emits the messages of the list msgs, all of the given type
Emit(sh, type, msgs) ==
  [sh EXCEPT !.Outbox = @ \cup Range(msgs),
             !.Sent[type] = IF @ + Len(msgs) > MaxSent THEN MaxSent
                            ELSE @ + Len(msgs)]

\* one recipient for every remote invocation
PerInvocation(targets) == targets

\* the participant shards, each one once
DistinctShards(targets) == CHOOSE o \in Orders(Range(targets)) : TRUE

\* one message of the given type from the coordinator to each recipient
ToEach(type, recipients) ==
  [i \in 1..Len(recipients) |->
     XShardMsg(type, Coordinator, recipients[i], 0, None)]

\* how often an effect occurs in a list of effects
Occurrences(effects, e) ==
  Cardinality({i \in 1..Len(effects) : effects[i] = e})

\* a target that executes every request it is delivered
NeverCached(replies, idx) == FALSE

\* a reply was already produced for the request of this index
ReplyCached(replies, idx) == idx \in DOMAIN replies

\* an Abort that merges the tentative effects
KeepTentative(storage, tentative) == storage \o tentative

\* Abort: the tentative effects are discarded
DiscardTentative(storage, tentative) == storage

\* a state machine for which Aborted is not final
IsCommitted(state) == state = "Committed"

\* the ShardTxID has reached Committed or Aborted
IsTerminal(state) == state \in TerminalStates

\* Request on the target: the cached reply is returned, else the call is
\* executed (its effects are tentative, its contract is locked) and the
\* reply is produced and recorded
HandleRequest(sh, m) ==
  IF ReplyCached(sh.Tx.Replies, m.Idx)
  THEN Emit([sh EXCEPT !.Redelivered = TRUE], "Reply",
            <<XShardMsg("Reply", m.To, m.From, m.Idx,
                        sh.Tx.Replies[m.Idx])>>)
  ELSE LET tentative == Append(sh.Tx.Tentative, m.Idx)
           value == <<"result", m.Idx, Occurrences(tentative, m.Idx)>>
       IN Emit([sh EXCEPT
                  !.Tx.State = "Replied",
                  !.Tx.Tentative = tentative,
                  !.Tx.Replies = Put(@, m.Idx, value),
                  !.Tx.Notify = Append(@, value),
                  !.Locked = @ \cup {m.Idx}],
               "Reply", <<XShardMsg("Reply", m.To, m.From, m.Idx, value)>>)

\* an initiator that takes any Reply for the reply of its pending request
AnyReply(pending, m) == pending # Nil

\* the Reply answers the pending request
MatchesPending(pending, m) ==
  pending # Nil /\ m.Idx = pending.Idx /\ m.From = pending.To

\* Reply on the coordinator: recorded against the pending request; the next
\* remote invocation is requested, or all requests are replied
HandleReply(sh, m, targets) ==
  IF sh.Tx.State = "Requested" /\ MatchesPending(sh.Tx.PendingOutReq, m)
  THEN LET idx == sh.Tx.PendingOutReq.Idx
           next == XShardMsg("Request", Coordinator,
                             targets[IF idx < Len(targets) THEN idx + 1
                                     ELSE idx],
                             idx + 1, None)
       IN IF idx < Len(targets)
          THEN Emit([sh EXCEPT
                       !.Tx.Got = @ \cup {idx},
                       !.Tx.Notify = Append(@, m.Value),
                       !.Tx.PendingOutReq = next],
                    "Request", <<next>>)
          ELSE [sh EXCEPT
                  !.Tx.Got = @ \cup {idx},
                  !.Tx.Notify = Append(@, m.Value),
                  !.Tx.PendingOutReq = Nil,
                  !.Tx.State = "Replied"]
  ELSE sh

\* Prepare on a participant: it reaches Prepared and answers, or fails to
\* (ok is FALSE)
HandlePrepare(sh, m, ok) ==
  IF sh.Tx.State = "Replied" /\ ~sh.Tx.Failed
  THEN IF ok
       THEN Emit([sh EXCEPT !.Tx.State = "Prepared"], "Prepared",
                 <<XShardMsg("Prepared", m.To, m.From, 0, None)>>)
       ELSE [sh EXCEPT !.Tx.Failed = TRUE]
  ELSE sh

\* Commit: the tentative effects are merged, the locks released and the
\* accumulated notification is emitted
Committed(sh) ==
  [sh EXCEPT !.Tx.State = "Committed",
             !.Storage = @ \o sh.Tx.Tentative,
             !.Tx.Tentative = <<>>,
             !.Locked = {},
             !.Notify = Append(@, sh.Tx.Notify)]

\* Abort: the tentative effects are discarded and the locks released
Aborted(sh) ==
  [sh EXCEPT !.Tx.State = "Aborted",
             !.Storage = DiscardTentative(@, sh.Tx.Tentative),
             !.Tx.PendingOutReq = Nil,
             !.Tx.Tentative = <<>>,
             !.Locked = {}]

\* a coordinator that commits on the first Prepared
AnyPrepared(prepared, participants) == prepared # {}

\* Prepared was received from every participant
AllPrepared(prepared, participants) == prepared = participants

\* Prepared on the coordinator: once every participant is Prepared it commits
\* and sends Commit to every participant
HandlePrepared(sh, m, targets) ==
  IF sh.Tx.State = "Prepared"
  THEN LET prepared == sh.Tx.Prepared \cup {m.From} IN
       IF AllPrepared(prepared, Range(targets))
       THEN Emit(Committed([sh EXCEPT !.Tx.Prepared = prepared]), "Commit",
                 ToEach("Commit", DistinctShards(targets)))
       ELSE [sh EXCEPT !.Tx.Prepared = prepared]
  ELSE sh

\* the handling of one message by the state machine of its ShardTxID: none
\* once the ShardTxID is Committed or Aborted
HandleShardCallMsg(sh, m, ok, targets) ==
  IF IsTerminal(sh.Tx.State) THEN sh
  ELSE IF m.Type = "Request" THEN HandleRequest(sh, m)
  ELSE IF m.Type = "Reply" THEN HandleReply(sh, m, targets)
  ELSE IF m.Type = "Prepare" THEN HandlePrepare(sh, m, ok)
  ELSE IF m.Type = "Prepared"
    THEN HandlePrepared(sh, m, targets)
  ELSE IF m.Type = "Commit" THEN Committed(sh)
  ELSE Aborted(sh)

InitXShard ==
  /\ LedgerInit(stateHashCheckHeight)
  /\ ex = Nil
  /\ solo = Nil
  /\ hdr = Nil
  /\ mgmt = Nil
  /\ chainmgr = Nil
  /\ \E k \in 1..MaxRequests :
       \E targets \in [1..k -> Shards \ {Coordinator}] :
         xs = [targets |-> targets,
               durable |-> [s \in Shards |-> NoShardState],
               pending |-> [s \in Shards |-> NoShardState],
               net |-> {},
               dropped |-> FALSE]

\* the transaction is executed on the coordinating shard: its local effects
\* are tentative and its first remote invocation is requested
StartTx ==
  /\ xs.pending[Coordinator].Tx.State = "Absent"
  /\ LET first == XShardMsg("Request", Coordinator, xs.targets[1], 1, None)
     IN xs' = [xs EXCEPT !.pending[Coordinator] =
                 Emit([@ EXCEPT !.Tx.State = "Requested",
                                !.Tx.PendingOutReq = first,
                                !.Tx.Tentative = <<0>>,
                                !.Locked = {0}],
                      "Request", <<first>>)]
  /\ UNCHANGED <<ledgerVars, ex, solo, hdr, mgmt, chainmgr>>

\* a message that was sent is handled in the block its target executes
Deliver(s, m) ==
  /\ m \in xs.net /\ m.To = s
  /\ \E ok \in IF m.Type = "Prepare" THEN BOOLEAN ELSE {TRUE} :
       xs' = [xs EXCEPT
                !.pending[s] = HandleShardCallMsg(@, m, ok, xs.targets),
                !.dropped = @ \/ IsTerminal(xs.pending[s].Tx.State)]
  /\ UNCHANGED <<ledgerVars, ex, solo, hdr, mgmt, chainmgr>>

\* all requests are replied: the coordinator sends Prepare to every
\* participant
StartPrepare ==
  /\ xs.pending[Coordinator].Tx.State = "Replied"
  /\ xs' = [xs EXCEPT !.pending[Coordinator] =
              Emit([@ EXCEPT !.Tx.State = "Prepared"], "Prepare",
                   ToEach("Prepare", DistinctShards(xs.targets)))]
  /\ UNCHANGED <<ledgerVars, ex, solo, hdr, mgmt, chainmgr>>

\* the coordinator gives up (a participant failed to prepare or did not
\* answer): it aborts and sends Abort to every participant
StartAbort ==
  /\ xs.pending[Coordinator].Tx.State \in {"Requested", "Replied", "Prepared"}
  /\ xs' = [xs EXCEPT !.pending[Coordinator] =
              Emit(Aborted(@), "Abort",
                   ToEach("Abort", DistinctShards(xs.targets)))]
  /\ UNCHANGED <<ledgerVars, ex, solo, hdr, mgmt, chainmgr>>

\* the block a shard executes is committed: what it changed is durable and
\* its outbound messages are sent
CommitBlock(s) ==
  /\ xs.pending[s] # xs.durable[s]
  /\ xs' = [xs EXCEPT !.durable[s] = [xs.pending[s] EXCEPT !.Outbox = {}],
                      !.pending[s] = [@ EXCEPT !.Outbox = {}],
                      !.net = @ \cup xs.pending[s].Outbox]
  /\ UNCHANGED <<ledgerVars, ex, solo, hdr, mgmt, chainmgr>>

\* the block a shard executes is not committed: what it changed is lost
DiscardBlock(s) ==
  /\ xs.pending[s] # xs.durable[s]
  /\ xs' = [xs EXCEPT !.pending[s] = xs.durable[s]]
  /\ UNCHANGED <<ledgerVars, ex, solo, hdr, mgmt, chainmgr>>

\* the TxState as the block in execution has left it in its own overlay
GetPendingTxState(s) == xs.pending[s].Tx

\* the TxState a query returns: read through a fresh overlay of the state
\* store
GetShardTxState(s) == xs.durable[s].Tx

NextXShard ==
  \/ StartTx
  \/ \E s \in Shards : \E m \in xs.net : Deliver(s, m)
  \/ StartPrepare
  \/ StartAbort
  \/ \E s \in Shards : CommitBlock(s)
  \/ \E s \in Shards : DiscardBlock(s)

SpecXShard == InitXShard /\ [][NextXShard]_vars

\* ============================================================ solo service
\* The SoloService on a ledger that has no other caller: while it is started
\* a timer sends it TimeOut messages, each TimeOut runs genBlock (makeBlock,
\* the parent height check, ExecuteBlock, SubmitBlock, DelCrossShardTxs,
\* broadcastCrossShardMsgs). The calls into the ledger are the actions of
\* the ledger above, taken by the caller "solo". The actor handles one
\* message at a time: no message is received while genBlock runs. What the
\* clock and the parent chain do while genBlock runs is seen by the next
\* genBlock only and is modelled as happening after it.
MaxParentHeight == 2   \* largest height of the parent chain
MaxInbound == 1        \* inbound cross-shard transactions in the pool

ParentHeightIncrement == 1
shardID == "self"
TargetShards == {"child", "sibling"}
InboundTxs == 1..MaxInbound

\* ShardID.ParentID of a target shard
ParentID(target) == IF target = "child" THEN shardID ELSE "elsewhere"

\* the variables no step of the SoloService itself touches
soloEnv == <<memVars, storeVars, peerVars, boot, rec, crashes, hist, ex, xs,
            hdr, mgmt, chainmgr>>

\* a SubmitBlock that returned at all, with or without an error
SubmitReturned(why) == TRUE

\* SubmitBlock returned a nil error
SubmitSucceeded(why) == why \in {"submit ok", "submit old"}

\* the timestamp of the current block of the ledger
CurrentTimestamp == GetHeaderByHash(GetCurrentBlockHash).Timestamp

\* the parent height of the ledger, whatever the previous ParentHeight
LedgerParentHeight(parentHeight, ledgerParentHeight) == ledgerParentHeight

\* the ParentHeight makeBlock gives the new block
NextParentHeight(parentHeight, ledgerParentHeight) ==
  IF ledgerParentHeight >= parentHeight + ParentHeightIncrement
  THEN parentHeight + ParentHeightIncrement
  ELSE ledgerParentHeight

\* a block two heights above the current block
SkipBlockHeight(height) == height + 2

\* the Height makeBlock gives the new block
NextBlockHeight(height) == height + 1

\* makeBlock: the block built on the current block of the ledger with n
\* transactions of the pool, the inbound cross-shard transactions shardTxs,
\* and the time of the clock as timestamp; out are the target shards for
\* which the execution of the block emits cross-shard messages
makeBlock(n, shardTxs, out) ==
  LET prevHash == GetCurrentBlockHash
      height == GetCurrentBlockHeight
      next == NextBlockHeight(height)
      txRoot == ComputeMerkleRoot(TxList(next, n))
  IN [Block |-> Block(next, prevHash, CurrentTimestamp + solo.lead, n,
                      GetBlockRootWithNewTxRoots(height + 1, <<txRoot>>),
                      TRUE),
      ParentHeight |-> NextParentHeight(solo.parentHeight,
                                        solo.ledgerParentHeight),
      ShardTxs |-> shardTxs,
      ShardNotify |-> out]

\* BuildCrossShardMsgs: one message per target shard and the hash root of
\* the messages of the block
HashRootOf(blkNum, out) == <<"msgroot", blkNum, out>>

BuildCrossShardMsgs(blkNum, out) ==
  [t \in out |->
     [Target |-> t, Height |-> blkNum, HashRoot |-> HashRootOf(blkNum, out)]]

\* GetShardMsgHash: the latest shard-message hash of a target, the zero hash
\* when none is stored (ErrNotFound)
GetShardMsgHash(msgHash, target) ==
  IF target \in DOMAIN msgHash THEN msgHash[target] ELSE UINT256_EMPTY

\* one iteration of the loop of broadcastCrossShardMsgs, for target t;
\* failAt names the store operation that returns an error, "none" if none
BroadcastTo(s, t, failAt) ==
  LET prevMsgHash == GetShardMsgHash(s.msgHash, t)
      crossShardMsg == s.msgs[t]
  IN IF ParentID(t) = shardID THEN [s EXCEPT !.todo = @ \ {t}]
     ELSE IF failAt = "GetShardMsgHash" THEN [s EXCEPT !.todo = {}]
     ELSE IF failAt = "SaveShardMsgHash" THEN [s EXCEPT !.todo = {}]
     ELSE IF failAt = "SaveCrossShardMsgByHash"
       THEN [s EXCEPT !.todo = {},
                      !.msgHash = Put(@, t, crossShardMsg.HashRoot)]
     ELSE [s EXCEPT !.todo = @ \ {t},
                    !.msgHash = Put(@, t, crossShardMsg.HashRoot),
                    !.saved = @ \cup {<<prevMsgHash, crossShardMsg>>},
                    !.sentOut = @ \cup {crossShardMsg}]

\* the store operations of an iteration that may return an error
FailPoints(t) ==
  IF ParentID(t) = shardID \/ faults >= MaxFaults THEN {"none"}
  ELSE {"none", "GetShardMsgHash", "SaveShardMsgHash",
        "SaveCrossShardMsgByHash"}

\* NewSoloService on the ledger after genesis: parentHeight is the
\* ParentHeight of the current header, ledgerParentHeight what
\* GetParentHeight of the ledger returns
NewSoloService(parentHeight, ledgerParentHeight) ==
  /\ LedgerInit(stateHashCheckHeight)
  /\ ex = Nil
  /\ xs = Nil
  /\ hdr = Nil
  /\ mgmt = Nil
  /\ chainmgr = Nil
  /\ \E pool \in SUBSET InboundTxs :
       solo = [started |-> FALSE, stage |-> "idle", lead |-> 1,
               parentHeight |-> parentHeight,
               ledgerParentHeight |-> ledgerParentHeight,
               block |-> Nil, pool |-> pool,
               msgs |-> EmptyMap, todo |-> {},
               msgHash |-> EmptyMap, saved |-> {}, sentOut |-> {}]

\* the solo service of a shard whose genesis header has ParentHeight 0
InitSolo == NewSoloService(0, 0)

\* Receive(StartConsensus): the timer is started
StartConsensus ==
  /\ solo.stage = "idle"
  /\ ~solo.started
  /\ solo' = [solo EXCEPT !.started = TRUE]
  /\ UNCHANGED <<soloEnv, callerVars, faults>>

\* Receive(StopConsensus): the timer is stopped
StopConsensus ==
  /\ solo.stage = "idle"
  /\ solo.started
  /\ solo' = [solo EXCEPT !.started = FALSE]
  /\ UNCHANGED <<soloEnv, callerVars, faults>>

\* the clock passes on to a second later than the timestamp of the current
\* block
ClockAdvance ==
  /\ solo.stage = "idle"
  /\ solo.lead = 0
  /\ solo' = [solo EXCEPT !.lead = 1]
  /\ UNCHANGED <<soloEnv, callerVars, faults>>

\* the parent chain grows
ParentAdvance ==
  /\ solo.stage = "idle"
  /\ solo.ledgerParentHeight < MaxParentHeight
  /\ solo' = [solo EXCEPT !.ledgerParentHeight = @ + 1]
  /\ UNCHANGED <<soloEnv, callerVars, faults>>

\* Receive(TimeOut) of a TimeOut the timer has sent, genBlock up to the call
\* of ExecuteBlock: makeBlock (made is FALSE when it returns an error, got
\* is FALSE when GetCrossShardTxs returns an error, which is only logged)
\* and the parent height check
GenBlock ==
  /\ boot = "running" /\ solo.started
  /\ solo.stage = "idle" /\ pc["solo"] = "idle"
  /\ GetCurrentBlockHeight < MaxHeight
  /\ \E made \in Outcomes, got \in BOOLEAN, n \in 0..MaxTxs,
        out \in SUBSET TargetShards :
       LET block == makeBlock(n, IF got THEN solo.pool ELSE {}, out) IN
       /\ Count(made)
       /\ solo' =
            IF ~made \/ solo.parentHeight > block.ParentHeight
            THEN solo
            ELSE [solo EXCEPT !.stage = "proposed", !.block = block]
  /\ UNCHANGED <<soloEnv, callerVars>>

\* genBlock calls ExecuteBlock with the block it made
GenBlockExecute ==
  /\ solo.stage = "proposed"
  /\ ret["solo"] = None
  /\ CallExecuteBlock("solo", solo.block.Block)

\* ExecuteBlock or SubmitBlock returned an error: genBlock returns it
GenBlockFails ==
  /\ solo.stage = "proposed"
  /\ pc["solo"] = "returned"
  /\ ret["solo"] \notin {"exec ok", "exec old"}
  /\ ~SubmitSucceeded(ret["solo"])
  /\ pc' = [pc EXCEPT !["solo"] = "idle"]
  /\ blk' = [blk EXCEPT !["solo"] = Nil]
  /\ res' = [res EXCEPT !["solo"] = Nil]
  /\ ret' = [ret EXCEPT !["solo"] = None]
  /\ solo' = [solo EXCEPT !.stage = "idle", !.block = Nil]
  /\ UNCHANGED <<soloEnv, faults>>

\* SubmitBlock returned no error: DelCrossShardTxs, and
\* broadcastCrossShardMsgs up to its loop (built is FALSE when
\* BuildCrossShardMsgs returns an error)
GenBlockSubmitted ==
  /\ solo.stage = "proposed"
  /\ pc["solo"] = "returned"
  /\ ret["solo"] \notin {"exec ok", "exec old"}
  /\ SubmitSucceeded(ret["solo"])
  /\ pc' = [pc EXCEPT !["solo"] = "idle"]
  /\ blk' = [blk EXCEPT !["solo"] = Nil]
  /\ res' = [res EXCEPT !["solo"] = Nil]
  /\ ret' = [ret EXCEPT !["solo"] = None]
  /\ \E built \in Outcomes :
       LET crossShardMsgs ==
             BuildCrossShardMsgs(solo.block.Block.Header.Height,
                                 solo.block.ShardNotify)
       IN /\ Count(built)
          /\ solo' = [solo EXCEPT
                        !.stage = "broadcast",
                        !.lead = 0,
                        !.pool = @ \ solo.block.ShardTxs,
                        !.msgs = IF built THEN crossShardMsgs ELSE EmptyMap,
                        !.todo = IF built THEN DOMAIN crossShardMsgs ELSE {}]
  /\ UNCHANGED soloEnv

\* one iteration of the loop of broadcastCrossShardMsgs
BroadcastCrossShardMsg ==
  /\ solo.stage = "broadcast"
  /\ \E t \in solo.todo : \E failAt \in FailPoints(t) :
       /\ Count(failAt = "none")
       /\ solo' = BroadcastTo(solo, t, failAt)
  /\ UNCHANGED <<soloEnv, callerVars>>

\* broadcastCrossShardMsgs has returned: genBlock records the ParentHeight
\* of the block and returns
GenBlockDone ==
  /\ solo.stage = "broadcast"
  /\ solo.todo = {}
  /\ solo' = [solo EXCEPT !.stage = "idle",
                          !.parentHeight = solo.block.ParentHeight,
                          !.block = Nil, !.msgs = EmptyMap]
  /\ UNCHANGED <<soloEnv, callerVars, faults>>

NextSolo ==
  \/ StartConsensus
  \/ StopConsensus
  \/ ClockAdvance
  \/ ParentAdvance
  \/ GenBlock
  \/ GenBlockExecute
  \/ ExecuteBlock("solo")
  \/ CallSubmitBlock("solo")
  \/ SubmitBlock("solo")
  \/ BlockStoreCommit("solo")
  \/ EventStoreCommit("solo")
  \/ StateStoreCommit("solo")
  \/ SubmitBlockDone("solo")
  \/ GenBlockFails
  \/ GenBlockSubmitted
  \/ BroadcastCrossShardMsg
  \/ GenBlockDone

SpecSolo == InitSolo /\ [][NextSolo]_vars

\* the SoloService under fair scheduling: a TimeOut of the running timer is
\* delivered and handled, every call genBlock makes returns, and the clock
\* passes on to a later second between two TimeOuts (the block interval is
\* a whole number of seconds)
SpecSoloFair ==
  /\ InitSolo /\ [][NextSolo]_vars
  /\ WF_vars(GenBlock)
  /\ WF_vars(GenBlockExecute)
  /\ WF_vars(ExecuteBlock("solo"))
  /\ WF_vars(CallSubmitBlock("solo"))
  /\ WF_vars(SubmitBlock("solo"))
  /\ WF_vars(BlockStoreCommit("solo"))
  /\ WF_vars(EventStoreCommit("solo"))
  /\ WF_vars(StateStoreCommit("solo"))
  /\ WF_vars(SubmitBlockDone("solo"))
  /\ WF_vars(GenBlockFails)
  /\ WF_vars(GenBlockSubmitted)
  /\ WF_vars(BroadcastCrossShardMsg)
  /\ WF_vars(GenBlockDone)
  /\ SF_vars(ClockAdvance)

\* ================================================================ claims
\* what SubmitBlock must leave alone when it rejects or drops a block
LedgerUnchanged ==
  UNCHANGED <<currBlockHeight, currBlockHash, headerIndex, headerCache,
              blockStore, stateStore, eventStore>>

\* a step in which SubmitBlock of caller p decides on the height of its block
SubmitDecides(p) ==
  pc[p] = "submitBody" /\ pc'[p] = "returned" /\ boot' = "running"

\* C1 as stated: SubmitBlock of a block whose height is not the current
\* height + 1 returns an error and leaves currBlockHeight, currBlockHash,
\* headerIndex, headerCache and the three stores unchanged.
C1_OffHeightIsError ==
  [][\A p \in Callers :
       (SubmitDecides(p) /\ blk[p].Header.Height # currBlockHeight + 1)
         => (ret'[p] \in ErrorReturns /\ LedgerUnchanged)]_vars

\* C1 amended: SubmitBlock of a block whose height is not the current
\* height + 1 leaves currBlockHeight, currBlockHash, headerIndex, headerCache
\* and the three stores unchanged; it returns an error when the height is
\* above the current height + 1 and returns nil (no error) when the height
\* is at or below the current height.
C1_OffHeightIsDroppedOrError ==
  [][\A p \in Callers :
       (SubmitDecides(p) /\ blk[p].Header.Height # currBlockHeight + 1)
         => /\ LedgerUnchanged
            /\ blk[p].Header.Height > currBlockHeight + 1
                 => ret'[p] \in ErrorReturns
            /\ blk[p].Header.Height <= currBlockHeight
                 => ret'[p] \notin ErrorReturns]_vars

\* C1 witness: SubmitBlock has returned for a block at or below the current
\* height
C1_OldBlockSubmitted ==
  \E p \in Callers :
    /\ pc[p] = "returned" /\ ret[p] = "submit old"
    /\ currBlockHeight > 0

\* C2: while the process runs the committed height never decreases, and
\* each change of it is a step of SubmitBlock that raises it by exactly one
\* to the height of the block being submitted.
C2_HeightStepsByOne ==
  [][(boot = "running" /\ boot' = "running")
       => \/ currBlockHeight' = currBlockHeight
          \/ \E p \in Callers :
               /\ pc[p] = "setCurrent" /\ pc'[p] = "returned"
               /\ currBlockHeight' = currBlockHeight + 1
               /\ currBlockHeight' = blk[p].Header.Height]_vars

\* C2 witness: the committed height has been raised twice
C2_TwoBlocksCommitted ==
  boot = "running" /\ crashes = 0 /\ currBlockHeight = 2

\* C3 as stated: after a crash inside submitBlock for height h between the
\* block-store commit and the state-store commit, recoverStore has replayed
\* exactly the heights above the state store's height up to the block
\* store's height, and the state store, the event store and the current
\* height equal those of the uninterrupted commit of h.
C3_RecoveryCompletesCommit ==
  (boot = "recovered" /\ hist.interrupted # Nil)
    => /\ hist.replayed = (hist.from.state + 1)..hist.from.block
       /\ stateStore = hist.interrupted.stateStore
       /\ eventStore = hist.interrupted.eventStore
       /\ currBlockHeight = hist.interrupted.Height

\* C4: at every point, a crash point included, the state store's height is
\* at most the event store's height, which is at most the block store's
\* height (the state batch is committed after the block and event batches).
C4_StoreHeightOrder ==
  /\ stateStore.CurrHeight <= eventStore.CurrHeight
  /\ eventStore.CurrHeight <= blockStore.CurrHeight

\* C4 witness: the process crashed after the event-store commit and before
\* the state-store commit
C4_CrashBetweenCommits ==
  boot = "down" /\ eventStore.CurrHeight > stateStore.CurrHeight

\* C5 as stated: when a storage operation of submitBlock fails, SubmitBlock
\* returns an error and no store holds a commit of the block.
C5_ErrorLeavesNoCommit ==
  [][\A p \in Callers :
       (pc[p] \in SubmitBody /\ pc'[p] = "returned" /\ boot' = "running"
        /\ ret'[p] \in StorageErrors)
         => /\ blockStore'.CurrHeight = currBlockHeight'
            /\ eventStore'.CurrHeight = currBlockHeight'
            /\ stateStore'.CurrHeight = currBlockHeight']_vars

\* C6 as stated: a step of SubmitBlock changes currBlockHeight,
\* currBlockHash or headerIndex only once the block, event and state stores
\* have all committed the block.
C6_PointersAfterCommits ==
  [][\A p \in Callers :
       (pc[p] \in SubmitBody /\ pc'[p] # pc[p] /\ boot' = "running"
        /\ <<currBlockHeight, currBlockHash, headerIndex>>'
             # <<currBlockHeight, currBlockHash, headerIndex>>)
         => /\ blockStore.CurrHash = Hash(blk[p].Header)
            /\ eventStore.CurrHash = Hash(blk[p].Header)
            /\ stateStore.CurrHash = Hash(blk[p].Header)]_vars

\* C7: at most one caller is inside the body of ExecuteBlock or SubmitBlock
\* at any time (the semaphore holds one token exactly then).
C7_OneCallerInBody ==
  /\ Cardinality({p \in Callers : pc[p] \in InBody}) <= 1
  /\ savingBlockSemaphore = Cardinality({p \in Callers : pc[p] \in InBody})

\* C7 witness: one caller is inside the body while another one is about to
\* call SubmitBlock
C7_SecondCallerWaits ==
  \E p, q \in Callers :
    /\ p # q /\ pc[p] \in InBody
    /\ pc[q] = "returned" /\ res[q] # Nil

\* C8 as stated: between the proposer's ExecuteBlock(B) and its
\* SubmitBlock(B, result) no other caller enters ExecuteBlock or SubmitBlock.
C8_NoCallerBetween ==
  [][\A q \in Callers \ {"solo"} :
       (pc["solo"] = "returned" /\ ret["solo"] = "exec ok"
        /\ boot' = "running")
         => ~(pc[q] \notin InBody /\ pc'[q] \in InBody)]_vars

\* C8 amended: the gate is held during each call and released between the
\* two calls, so another caller can run between them; SubmitBlock commits a
\* result of ExecuteBlock only when the block's height is still the current
\* height + 1, so the state store it commits the write-set onto is the state
\* the block was executed against.
C8_CommittedOntoExecutedState ==
  [][\A p \in Callers :
       (pc[p] = "commitState" /\ pc'[p] = "setCurrent"
        /\ res[p].WriteSet # <<>>)
         => /\ res[p].WriteSet = ApplyBlock(stateStore.State, blk[p])
            /\ stateStore'.State = ApplyBlock(stateStore.State, blk[p])]_vars

\* C8 witness: a caller holds the result of its ExecuteBlock call while
\* another caller has committed a block of that height in between
C8_StaleResultHeld ==
  \E p \in Callers :
    /\ pc[p] = "returned" /\ ret[p] = "exec ok"
    /\ blk[p].Header.Height <= currBlockHeight

\* C9 as stated: ExecuteBlock of a block at or below the current height
\* returns an empty WriteSet, Notify and ShardNotify, and as MerkleRoot the
\* state root that was recorded when the block's height was committed.
C9_OldHeightReturnsRecordedRoot ==
  \A p \in Callers :
    (pc[p] = "returned" /\ ret[p] = "exec old" /\ res[p] # Nil)
      => /\ res[p].WriteSet = <<>>
         /\ res[p].Notify = <<>>
         /\ res[p].ShardNotify = <<>>
         /\ blk[p].Header.Height \in DOMAIN hist.roots
         /\ res[p].MerkleRoot = hist.roots[blk[p].Header.Height]

\* C10: a call of ExecuteBlock, whatever it returns, leaves the three
\* durable stores, currBlockHeight and currBlockHash unchanged, and also
\* headerIndex, headerCache and the pending batches, which is all that a
\* later ExecuteBlock or SubmitBlock reads.
C10_ExecuteLeavesLedger ==
  [][\A p \in Callers :
       (boot' = "running" /\ pc'[p] # pc[p]
        /\ (pc[p] = "execBody" \/ pc'[p] = "execBody"))
         => UNCHANGED <<blockStore, stateStore, eventStore, currBlockHeight,
                        currBlockHash, headerIndex, headerCache,
                        storedIndexCount, batch>>]_vars

\* C10 witness: a block of the next height has been executed and is not
\* submitted; its write-set is not in the state store
C10_ExecutedNotSubmitted ==
  \E p \in Callers :
    /\ pc[p] = "returned" /\ ret[p] = "exec ok"
    /\ blk[p].Header.Height = currBlockHeight + 1
    /\ res[p].WriteSet # stateStore.State

\* a step in which SubmitBlock of caller p rejects its block because the
\* header fails verifyHeader or the block root does not match
SubmitRejects(p) ==
  /\ SubmitDecides(p)
  /\ ret'[p] \in {"submit verifyHeader", "submit block root"}

\* C12 as stated: SubmitBlock of a block at height > 0 whose block root
\* differs from the recomputed root, or whose header fails verifyHeader, is
\* rejected before any mutation: no batch is written to any store and
\* currBlockHeight, currBlockHash, headerIndex and the block-path peer set
\* are unchanged.
C12_RejectedBeforeMutation ==
  [][\A p \in Callers :
       (SubmitRejects(p) /\ blk[p].Header.Height > 0)
         => /\ batch' = NoBatch
            /\ UNCHANGED <<blockStore, stateStore, eventStore>>
            /\ UNCHANGED <<currBlockHeight, currBlockHash, headerIndex>>
            /\ UNCHANGED vbftPeerInfoblock]_vars

\* the previous hash of a header above genesis resolves to a known header
\* one lower and strictly earlier
HeaderLinked(header) ==
  header.Height > 0 =>
    LET prevHeader == GetHeaderByHash(header.PrevBlockHash) IN
    /\ prevHeader # Nil
    /\ prevHeader.Height = header.Height - 1
    /\ prevHeader.Timestamp < header.Timestamp

\* C13: every header at height > 0 that AddHeader accepts (it enters the
\* header cache) or that SubmitBlock accepts (the block goes on to the
\* commits) has a PrevBlockHash that resolves to a known header, cached or
\* stored, whose Height is exactly one less and whose Timestamp is strictly
\* smaller.
C13_AcceptedHeaderLinked ==
  [][/\ \A h \in (DOMAIN headerCache') \ (DOMAIN headerCache) :
          HeaderLinked(headerCache'[h])
     /\ \A p \in Callers :
          (pc[p] = "submitBody" /\ pc'[p] = "commitBlock")
            => HeaderLinked(blk[p].Header)]_vars

\* AddHeader has accepted a header above genesis and SubmitBlock has
\* accepted a block above genesis
C13_HeadersAccepted ==
  /\ \E h \in DOMAIN headerCache : headerCache[h].Height > 0
  /\ \E p \in Callers : pc[p] = "commitBlock" /\ blk[p].Header.Height > 0

\* both executions of the block have returned a result
BothDone == ex # Nil /\ \A r \in Runs : ex.run[r].pc = "done"

\* C11 as stated: executing the same block twice against the same pre-state,
\* each time with a fresh overlay, yields the same ExecuteResult.Hash and the
\* same WriteSet (keys, values, order), also when the locked-address and
\* locked-key sets hold more than one element and are written back through
\* the overlay.
C11_SameResultTwice ==
  BothDone =>
    /\ ex.run[1].result.Hash = ex.run[2].result.Hash
    /\ ex.run[1].result.WriteSet = ex.run[2].result.WriteSet

\* the transactions of the block in ascending order of the ShardID of their
\* group, each group in list order, then block.Transactions
RECURSIVE GroupsFrom(_)
GroupsFrom(id) ==
  IF id > MaxShardID THEN <<>>
  ELSE (IF id \in DOMAIN ex.block.ShardTxs THEN ex.block.ShardTxs[id]
        ELSE <<>>) \o GroupsFrom(id + 1)

HandlingOrder == GroupsFrom(1) \o ex.block.Transactions

\* the place of a transaction in the handling order
PlaceOf(txHash) ==
  CHOOSE i \in 1..Len(HandlingOrder) : HandlingOrder[i].Hash = txHash

\* C14: executeBlock handles all of block.ShardTxs before any transaction of
\* block.Transactions, the groups in ascending numeric ShardID order whatever
\* the order of the map, each group in list order, then block.Transactions
\* in block order; result.Notify and result.ShardNotify list their entries
\* in this handling order.
C14_HandledInOrder ==
  ex # Nil =>
    \A r \in Runs :
      LET run == ex.run[r] IN
      /\ Len(run.handled) <= Len(HandlingOrder)
      /\ \A i \in 1..Len(run.handled) :
           /\ run.handled[i] = HandlingOrder[i].Hash
           /\ run.result.Notify[i].TxHash = HandlingOrder[i].Hash
      /\ Len(run.result.Notify) = Len(run.handled)
      /\ \A k, l \in 1..Len(run.result.ShardNotify) :
           k < l => PlaceOf(run.result.ShardNotify[k].Tx)
                      <= PlaceOf(run.result.ShardNotify[l].Tx)
      /\ run.pc = "done" => Len(run.handled) = Len(HandlingOrder)

\* a block with a group for each shard and a transaction has been executed
\* and these have emitted shard messages
C14_GroupsAndTransactionsHandled ==
  /\ ex # Nil
  /\ DOMAIN ex.block.ShardTxs = ShardIDs
  /\ Len(ex.block.Transactions) > 0
  /\ \E r \in Runs :
       /\ ex.run[r].pc = "done"
       /\ Len(ex.run[r].result.ShardNotify) > 2

\* the transaction a run handles in its next step
CurrentTx(r) ==
  IF ex.run[r].pc = "shardTxs" THEN Head(ex.run[r].todo)
  ELSE ex.block.Transactions[ex.run[r].i + 1]

\* a step in which run r handles a transaction
Handles(r) ==
  /\ ex.run[r].pc \in {"shardTxs", "txs"}
  /\ ex'.run[r] # ex.run[r]

\* a step in which executeBlock of run r returns an error
Aborts(r) == ex.run[r].pc # "error" /\ ex'.run[r].pc = "error"

\* the transaction is of the wrong kind for the loop that handles it
WrongKind(r) ==
  (ex.run[r].pc = "shardTxs") # (CurrentTx(r).TxType = "ShardCall")

\* the handler of the transaction returns an error and no storage fault
\* occurs
HandlerFails(r) ==
  /\ ~WrongKind(r)
  /\ \/ CurrentTx(r).Outcome = "fail"
     \/ /\ CurrentTx(r).Outcome = "ok"
        /\ CurrentTx(r).TxType = "Invoke"
        /\ CurrentTx(r).To \in ex.run[r].lockedAddress

\* the step adds the failed-state notification of the transaction and goes
\* on with the next transaction
FailedAndGoesOn(r) ==
  /\ ~Aborts(r)
  /\ ex'.run[r].result.Notify =
       Append(ex.run[r].result.Notify,
              [TxHash |-> CurrentTx(r).Hash, State |-> "FAIL"])
  /\ ex'.run[r].handled = Append(ex.run[r].handled, CurrentTx(r).Hash)

\* a storage-layer fault occurs in the step: a read of the state store fails
\* before the loops or the overlay's error is set in HandleTransaction
StorageFault(r) ==
  \/ ex.run[r].pc = "begin"
  \/ /\ ex.run[r].pc \in {"shardTxs", "txs"}
     /\ ~WrongKind(r)
     /\ CurrentTx(r).Outcome = "fault"

StorageOf(overlay, addr) == Merge(GenesisStorage, overlay)[<<"storage", addr>>]

\* run r is about to handle an invocation, in block.Transactions, of a
\* contract whose address is in the locked-address set
InvokesLocked(r) ==
  /\ ex.run[r].pc = "txs"
  /\ CurrentTx(r).TxType = "Invoke"
  /\ CurrentTx(r).Outcome # "fault"
  /\ CurrentTx(r).To \in ex.run[r].lockedAddress

C17_StateRootByPhase ==
  ex # Nil =>
    \A r \in Runs :
      ex.run[r].pc = "done" =>
        LET result == ex.run[r].result
            height == ex.block.Header.Height
            T == ex.stateHashCheckHeight
        IN /\ height < T => result.MerkleRoot = UINT256_EMPTY
           /\ height = T =>
                /\ result.MerkleRoot =
                     calculateTotalStateHash(TotalState(result.WriteSet))
                /\ result.Hash = result.MerkleRoot
           /\ height > T =>
                /\ result.Hash = ChangeHash(result.WriteSet)
                /\ result.MerkleRoot =
                     ComputeMerkleRoot(
                       Append(stateStore.DeltaTree, result.Hash))

\* a block at the state hash check height was executed with transactions
\* that wrote contract storage
C17_ExecutedAtCheckHeight ==
  /\ ex # Nil
  /\ ex.block.Header.Height = ex.stateHashCheckHeight
  /\ \E r \in Runs :
       /\ ex.run[r].pc = "done"
       /\ \E a \in Addresses :
            <<"storage", a>> \in DOMAIN ex.run[r].result.WriteSet

\* the messages that were sent or that a block being executed will send
AllMsgs == xs.net \cup UNION {xs.pending[s].Outbox : s \in Shards}

\* the effects a shard holds, tentative or merged
EffectsOf(sh) == sh.Tx.Tentative \o sh.Storage

\* C18: delivering the same Request (same ShardTxID and index) twice to its
\* target, in the same block or in different blocks, executes the remote
\* call's side effects once and leaves exactly one Reply for that request:
\* the second delivery returns the cached Reply, never a divergent one.
C18_RequestExecutedOnce ==
  xs # Nil =>
    /\ \A s \in Shards : \A idx \in 1..MaxRequests :
         /\ Occurrences(EffectsOf(xs.pending[s]), idx) <= 1
         /\ Occurrences(EffectsOf(xs.durable[s]), idx) <= 1
    /\ \A m1, m2 \in AllMsgs :
         (m1.Type = "Reply" /\ m2.Type = "Reply"
            /\ m1.From = m2.From /\ m1.Idx = m2.Idx) => m1 = m2

\* a Request whose Reply was sent is delivered again in a later block and
\* its target returns the Reply it has recorded, with the effects of the one
\* execution still tentative
C18_CachedReplyReturned ==
  /\ xs # Nil
  /\ \E m \in xs.net :
       /\ m.Type = "Reply"
       /\ m \in xs.pending[m.From].Outbox
       /\ Occurrences(xs.pending[m.From].Tx.Tentative, m.Idx) = 1

\* C19: once a ShardTxID is Committed or Aborted on a shard, handling any
\* further message for it changes neither the TxState nor any contract
\* state, emits no notification and no outbound message, and leaves the
\* block that carries the message as it is (the block is not aborted).
C19_TerminalIsNoOp ==
  [][\A s \in Shards : \A m \in xs.net :
       (xs.pending[s].Tx.State \in TerminalStates /\ Deliver(s, m))
         => /\ xs'.pending = xs.pending
            /\ xs'.durable = xs.durable
            /\ xs'.net = xs.net]_vars

\* messages of every type were sent to a participant and a message was
\* handled on a shard whose ShardTxID was Committed or Aborted
C19_DeliveredAfterTerminal ==
  /\ xs # Nil
  /\ xs.dropped
  /\ \E s \in Shards :
       /\ xs.pending[s].Tx.State \in TerminalStates
       /\ {m.Type : m \in {n \in xs.net : n.To = s}}
            = {"Request", "Prepare", "Commit"}

\* C20: when some participant fails to reach Prepared and the Abort has been
\* handled, no shard on which the transaction is Aborted holds any of its
\* tentative effects in its durable store, and the contracts it locked are
\* released.
C20_AbortLeavesNoEffects ==
  xs # Nil =>
    \A s \in Shards :
      xs.durable[s].Tx.State = "Aborted" =>
        /\ xs.durable[s].Storage = <<>>
        /\ xs.durable[s].Tx.Tentative = <<>>
        /\ xs.durable[s].Locked = {}

\* a participant failed to reach Prepared after executing a request, another
\* one was Prepared, and the Abort is durable on the coordinator and on
\* every participant
C20_AbortedAfterFailedPrepare ==
  /\ xs # Nil
  /\ Cardinality(Range(xs.targets)) = MaxParticipants
  /\ \A s \in Shards : xs.durable[s].Tx.State = "Aborted"
  /\ \E s \in Range(xs.targets) : xs.durable[s].Tx.Failed
  /\ \E m \in xs.net : m.Type = "Prepared"

\* the messages of one type that were sent
Sent(type) == {m \in xs.net : m.Type = type}

\* the participant shards of the transaction
Participants == Range(xs.targets)

\* the step makes shard s merge tentative effects or emit a notification
MergesOrEmits(s) ==
  \/ Len(xs'.pending[s].Storage) > Len(xs.pending[s].Storage)
  \/ Len(xs'.pending[s].Notify) > Len(xs.pending[s].Notify)

\* the step is the handling of a Commit by shard s
ProcessesCommit(s) ==
  \E m \in Sent("Commit") :
    /\ m.To = s
    /\ xs.pending[s].Tx.State \notin TerminalStates
    /\ xs'.pending[s] = Committed(xs.pending[s])

\* C21: a Commit is sent only when Prepared was sent by every participant
\* and recorded by the coordinator; Commit and Abort are never both sent (nor
\* both about to be sent); a participant merges tentative effects or emits
\* its notification only in the step in which it handles a Commit.
C21_CommitAfterAllPrepared ==
  [][/\ (Sent("Commit")' # {} =>
           /\ xs'.durable[Coordinator].Tx.Prepared = Participants'
           /\ \A p \in Participants' :
                \E m \in Sent("Prepared")' : m.From = p)
     /\ ~(\E c, a \in AllMsgs' : c.Type = "Commit" /\ a.Type = "Abort")
     /\ \A s \in Shards \ {Coordinator} :
          MergesOrEmits(s) => ProcessesCommit(s)]_vars

\* two distinct participants were sent Commit and one of them has merged
\* its effects and emitted its notification
C21_ParticipantCommitted ==
  /\ Cardinality(Participants) = 2
  /\ Sent("Commit") # {}
  /\ \E s \in Participants :
       /\ xs.durable[s].Tx.State = "Committed"
       /\ xs.durable[s].Storage # <<>>
       /\ xs.durable[s].Notify # <<>>

\* the TxState of the transaction in the block its home shard executes
HomeTx == xs.pending[Coordinator].Tx

\* the step handles, on the home shard, the Reply that answers the pending
\* request, in a block later than the one that recorded the request, and
\* records the reply and its notification
ProcessesReply ==
  \E m \in Sent("Reply") :
    /\ m.To = Coordinator
    /\ HomeTx.PendingOutReq # Nil
    /\ m.Idx = HomeTx.PendingOutReq.Idx
    /\ m.From = HomeTx.PendingOutReq.To
    /\ GetShardTxState(Coordinator).State = "Requested"
    /\ GetShardTxState(Coordinator).PendingOutReq = HomeTx.PendingOutReq
    /\ HomeTx'.Got = HomeTx.Got \cup {m.Idx}
    /\ HomeTx'.Notify = Append(HomeTx.Notify, m.Value)

\* the block the home shard executes is given up
HomeBlockDiscarded ==
  xs'.pending[Coordinator] = xs.durable[Coordinator]

\* the replies of all requests were sent and are recorded in the TxState
AllRepliesRecorded(tx) ==
  /\ tx.Got = 1..Len(xs.targets)
  /\ \A idx \in tx.Got :
       \E m \in Sent("Reply") :
         m.Idx = idx /\ m.From = xs.targets[idx] /\ tx.Notify[idx] = m.Value

RECURSIVE TallyUpTo(_, _)
TallyUpTo(type, s) ==
  IF s < 0 THEN 0 ELSE xs.durable[s].Sent[type] + TallyUpTo(type, s - 1)

Tally(type) == TallyUpTo(type, MaxParticipants)

\* the transaction was run to completion: it is Committed on its home shard
\* and on every participant, and no Request had to be answered twice
RunToCompletion ==
  /\ \A s \in {Coordinator} \cup Participants :
       xs.durable[s].Tx.State = "Committed"
  /\ \A s \in Shards : ~xs.durable[s].Redelivered

SavedFor(t) == {p \in solo.saved : p[2].Target = t}

\* C24: for every target shard the stored latest shard-message hash is the
\* hash root of a message that is stored under its predecessor, and no two
\* stored messages of the target share a predecessor, also after blocks in
\* which a save step of broadcastCrossShardMsgs failed
C24_HashChainPerTarget ==
  \A t \in DOMAIN solo.msgHash :
    /\ \E p \in SavedFor(t) : p[2].HashRoot = solo.msgHash[t]
    /\ \A p, q \in SavedFor(t) : p[1] = q[1] => p = q

\* ---------------------------------------------------------------- C25
\* what genBlock leaves behind outside the ledger: the pool of inbound
\* cross-shard transactions, the stored latest hashes, the stored messages
\* and the messages handed to the network
SoloEffects(s) == <<s.pool, s.msgHash, s.saved, s.sentOut>>

\* the messages a step stores or broadcasts
NewlySent == {p[2] : p \in solo'.saved \ solo.saved}
               \cup (solo'.sentOut \ solo.sentOut)

\* C25: a step of the solo service that deletes inbound cross-shard
\* transactions from the pool, or stores or broadcasts a cross-shard
\* message, belongs to a genBlock whose block is the current block of the
\* ledger, that is, whose SubmitBlock has succeeded, and the messages are
\* those of that block; a genBlock that fails in makeBlock, the parent height
\* check, ExecuteBlock or SubmitBlock therefore changes none of them
C25_OnlyAfterSubmit ==
  [][SoloEffects(solo') # SoloEffects(solo) =>
       /\ solo.block # Nil
       /\ GetCurrentBlockHash = Hash(solo.block.Block.Header)
       /\ solo.pool \ solo'.pool \subseteq solo.block.ShardTxs
       /\ \A m \in NewlySent :
            m.Height = solo.block.Block.Header.Height]_vars

\* a block with inbound cross-shard transactions was committed after an
\* error, and one of its messages is broadcast
C25_BroadcastAfterCommit ==
  /\ solo # Nil
  /\ solo.stage = "broadcast"
  /\ solo.block.ShardTxs # {}
  /\ solo.sentOut # {}
  /\ faults > 0

\* ---------------------------------------------------------------- C26
\* C26: the TxState that GetShardTxState returns for a shard changes only in
\* the step that commits the block the shard has executed, and becomes what
\* that block left; a step in which a block changes the TxState while it is
\* executed, and a step that drops an executed block, leave it unchanged
C26_VisibleOnlyByCommit ==
  [][\A s \in Shards :
       /\ GetShardTxState(s)' # GetShardTxState(s) =>
            /\ xs'.net = xs.net \cup xs.pending[s].Outbox
            /\ xs'.pending[s].Outbox = {}
            /\ GetShardTxState(s)' = xs.pending[s].Tx
       /\ xs'.pending[s].Tx # xs.pending[s].Tx =>
            GetShardTxState(s)' = GetShardTxState(s)]_vars

\* a shard has committed a block that changed the TxState and executes a
\* block that changed it again
C26_ChangePendingCommit ==
  /\ xs # Nil
  /\ \E s \in Shards :
       /\ GetShardTxState(s).State # "Absent"
       /\ xs.pending[s].Tx # xs.durable[s].Tx

\* ---------------------------------------------------------------- C27
\* a step in which the SubmitBlock of caller p returns one of the values of
\* returns
SubmitReturns(p, returns) ==
  /\ pc[p] \in SubmitBody
  /\ pc'[p] = "returned"
  /\ ret'[p] \in returns

\* what the ledger answers once SubmitBlock has returned for block B: the
\* current height and hash are B's, B is the block of its height, and the
\* notifications of its height are one for each transaction of B
AnswersAfter(B) ==
  /\ GetCurrentBlockHeight' = B.Header.Height
  /\ GetCurrentBlockHash' = Hash(B.Header)
  /\ GetBlockByHeight(B.Header.Height)' = B
  /\ GetEventNotifyByBlock(B.Header.Height)' = B.Transactions

\* C27: after genesis initialisation the current height is 0, and after
\* every SubmitBlock(B, result) that returns a nil error for a block B of
\* the next height h, the current height is h, the current hash is the hash
\* of B, GetBlockByHeight(h) is B and GetEventNotifyByBlock(h) is one
\* notification for each transaction of B
C27_CommittedBlockIsCurrent ==
  /\ GetCurrentBlockHeight = 0
  /\ [][\A p \in Callers : \A B \in {blk[p]} :
          SubmitReturns(p, {"submit ok"}) => AnswersAfter(B)]_vars

\* ---------------------------------------------------------------- C28
\* genBlock goes on with the block makeBlock has made
Proposes == solo.stage = "idle" /\ solo'.stage = "proposed"

\* C28: every block the solo service proposes has the current height plus
\* one as Height and the current block hash as PrevBlockHash; it is the
\* block genBlock passes to ExecuteBlock, and SubmitBlock is called with it
\* after ExecuteBlock has returned for it without an error; and under fair
\* delivery of the timer's TimeOuts a started solo service on a ledger at
\* height H commits a block, the height exceeding H, unless it is stopped
C28_ProposesNextAndCommits ==
  /\ [][Proposes =>
          /\ solo'.block.Block.Header.Height = GetCurrentBlockHeight + 1
          /\ solo'.block.Block.Header.PrevBlockHash = GetCurrentBlockHash]_vars
  /\ [][pc["solo"] # "execBody" /\ pc'["solo"] = "execBody" =>
          /\ solo.stage = "proposed"
          /\ blk'["solo"] = solo.block.Block]_vars
  /\ [][pc["solo"] # "submitBody" /\ pc'["solo"] = "submitBody" =>
          /\ solo.stage = "proposed"
          /\ ret["solo"] = "exec ok"
          /\ blk'["solo"] = solo.block.Block]_vars
  /\ \A H \in 0..(MaxHeight - 1) :
       (solo.started /\ GetCurrentBlockHeight = H)
         ~> (GetCurrentBlockHeight > H \/ ~solo.started)

\* the started solo service has committed the blocks of all heights, one of
\* them in a second proposal after an error
C28_SoloCommittedBlocks ==
  /\ solo # Nil
  /\ solo.started
  /\ GetCurrentBlockHeight = MaxHeight
  /\ faults > 0

\* ---------------------------------------------------------------- C29
\* the body of SubmitBlock of caller p runs on a block whose height is at or
\* below the current height
SubmitsOld(p) ==
  /\ boot = "running" /\ boot' = "running"
  /\ pc[p] = "submitBody" /\ pc'[p] # "submitBody"
  /\ blk[p].Header.Height <= GetCurrentBlockHeight

\* C29: SubmitBlock(B, result) for a block whose height is at or below the
\* current height returns nil and applies nothing: no batch is left to be
\* committed, the three stores, the current height and hash and the header
\* index stay as they are, and no block-completion message is published
C29_OldBlockAppliesNothing ==
  [][\A p \in Callers :
       SubmitsOld(p) =>
         /\ pc'[p] = "returned" /\ ret'[p] = "submit old"
         /\ batch' = NoBatch
         /\ UNCHANGED <<storeVars, currBlockHeight, currBlockHash,
                        headerIndex, hist>>]_vars

\* SubmitBlock has returned for a block of a height that was committed
\* before, on a ledger above genesis
C29_SubmittedAgain ==
  /\ \E p \in Callers : pc[p] = "returned" /\ ret[p] = "submit old"
  /\ GetCurrentBlockHeight > 0
  /\ stateStore.CurrHeight = GetCurrentBlockHeight

\* ---------------------------------------------------------------- C30
\* the number of block-completion messages published for a height
PublishedFor(h) ==
  IF h \in DOMAIN hist.published THEN hist.published[h] ELSE 0

\* C30: a block-completion message is published for a height h at most
\* once, in a step of a running ledger in which SubmitBlock returns nil for
\* a block of height h, the state store is committed at h with that block
\* and the current height becomes h; no step in which SubmitBlock returns
\* an error and no step of crash recovery publishes one
C30_PublishedOnceAfterCommit ==
  [][/\ \A h \in 0..MaxHeight : PublishedFor(h)' <= 1
     /\ hist'.published # hist.published =>
          /\ boot = "running" /\ boot' = "running"
          /\ \E p \in Callers : \E B \in {blk[p]} :
               /\ SubmitReturns(p, {"submit ok"})
               /\ PublishedFor(B.Header.Height)' =
                    PublishedFor(B.Header.Height) + 1
               /\ stateStore.CurrHeight = B.Header.Height
               /\ stateStore.CurrHash = Hash(B.Header)
               /\ GetCurrentBlockHeight' = B.Header.Height]_vars

\* after a crash that interrupted a commit and the recovery from it, the
\* blocks of two heights have been published
C30_PublishedAfterRecovery ==
  /\ crashes > 0
  /\ boot = "running"
  /\ PublishedFor(1) = 1
  /\ PublishedFor(MaxHeight) = 1

\* ---------------------------------------------------------------- C31
\* C31: after the recovery from a crash that interrupted the commit of a
\* height after the block-store commit and before the event-store commit,
\* the event store holds what the uninterrupted commit of the height would
\* have left: the notify index of the block, the current-block pointer and
\* the cross-shard data
C31_RecoveryRestoresEventStore ==
  (boot = "recovered" /\ hist.interrupted # Nil
     /\ hist.interrupted.stage = "commitEvent")
    => eventStore = hist.interrupted.eventStore

\* ---------------------------------------------------------------- C32
\* C32: every header in headerCache has a Height above the current block
\* height, also when the block committed at a height is not the block of
\* the header that was added for the height
C32_CacheAboveCommitted ==
  \A blockHash \in DOMAIN headerCache :
    headerCache[blockHash].Height > GetCurrentBlockHeight

\* ===================================================================
\* The quorum check of verifyHeader: bookkeepers, peer set, signatures
\* ===================================================================
MaxPeers == 8          \* largest number of peers in vbftPeerInfo
MaxBookkeepers == 3    \* largest number of Bookkeepers and of SigData entries

\* the peer set of n peers holds the keys 1..n; Outsider is in no peer set
Outsider == MaxPeers + 1
BookkeeperKeys == {1, 2, Outsider}
\* a signature is the key that made it; NoSigner is a signature of no key
NoSigner == 0
BookkeeperLists == UNION {[1..k -> BookkeeperKeys] : k \in 0..MaxBookkeepers}
SigLists ==
  UNION {[1..k -> BookkeeperKeys \cup {NoSigner}] : k \in 0..MaxBookkeepers}

\* integer division of Go: the quotient is truncated toward zero
GoDiv(a, b) == IF a >= 0 THEN a \div b ELSE -((-a) \div b)

NoQuorum(n) == n - GoDiv(n * 7, 7)

VbftQuorum(n) == n - GoDiv(n * 6, 7)

BookkeeperQuorum(k) == k - GoDiv(k - 1, 3)

\* signature.VerifyMultiSignature: each of the first m signatures has to be
\* the signature of a key of keys that no earlier signature has used
RECURSIVE VerifyFrom(_, _, _, _, _)
VerifyFrom(keys, m, sigs, i, mask) ==
  IF i > m THEN None
  ELSE LET free == {j \in 1..Len(keys) : j \notin mask /\ keys[j] = sigs[i]}
       IN IF free = {} THEN "multi-signature verification failed"
          ELSE VerifyFrom(keys, m, sigs, i + 1,
                          mask \cup {CHOOSE j \in free : \A l \in free : j <= l})

VerifyMultiSignature(keys, m, sigs) ==
  IF Len(sigs) < m THEN "not enough signatures in multi-signature"
  ELSE VerifyFrom(keys, m, sigs, 1, {})

\* types.AddressFromBookkeepers: the address of a list of keys is made of
\* the keys and of how often each occurs; no address of an empty list
AddressOf(bookkeepers) ==
  [key \in BookkeeperKeys |->
     Cardinality({j \in 1..Len(bookkeepers) : bookkeepers[j] = key})]

AddressFromBookkeepers(bookkeepers) ==
  IF Len(bookkeepers) = 0 THEN [err |-> "no bookkeeper", address |-> Nil]
  ELSE [err |-> None, address |-> AddressOf(bookkeepers)]

NextBookkeepers == {AddressOf(<<1>>), AddressOf(<<1, 2>>), AddressOf(<<2, 1, 2>>)}

\* verifyHeader after the checks of height and timestamp: the error and the
\* peer set it returns
verifyBookkeepers(consensusType, header, prevHeader, vbftPeerInfo) ==
  IF consensusType = "vbft"
    THEN LET m == VbftQuorum(Cardinality(vbftPeerInfo))
         IN IF Len(header.Bookkeepers) < m
              THEN [err |-> "header Bookkeepers", peers |-> vbftPeerInfo]
            ELSE IF \E j \in 1..Len(header.Bookkeepers) :
                      header.Bookkeepers[j] \notin vbftPeerInfo
              THEN [err |-> "invalid pubkey", peers |-> vbftPeerInfo]
            ELSE IF VerifyMultiSignature(header.Bookkeepers, m,
                                         header.SigData) # None
              THEN [err |-> VerifyMultiSignature(header.Bookkeepers, m,
                                                 header.SigData),
                    peers |-> vbftPeerInfo]
            ELSE IF header.NewChainConfig # NoChainConfig
              THEN [err |-> None, peers |-> header.NewChainConfig]
            ELSE [err |-> None, peers |-> vbftPeerInfo]
    ELSE LET a == AddressFromBookkeepers(header.Bookkeepers)
             m == BookkeeperQuorum(Len(header.Bookkeepers))
         IN IF a.err # None THEN [err |-> a.err, peers |-> vbftPeerInfo]
            ELSE IF prevHeader.NextBookkeeper # a.address
              THEN [err |-> "bookkeeper address error", peers |-> vbftPeerInfo]
            ELSE [err |-> VerifyMultiSignature(header.Bookkeepers, m,
                                               header.SigData),
                  peers |-> vbftPeerInfo]

\* a header with its bookkeepers and signatures, the previous header, the
\* consensus type of the genesis configuration and the peer set
InitQuorum ==
  /\ LedgerInit(stateHashCheckHeight)
  /\ ex = Nil
  /\ xs = Nil
  /\ solo = Nil
  /\ mgmt = Nil
  /\ chainmgr = Nil
  /\ \E bookkeepers \in BookkeeperLists, sigs \in SigLists,
        config \in {NoChainConfig, {1}} :
       \/ \E n \in 0..MaxPeers :
            hdr = [consensusType |-> "vbft",
                   header |-> [Bookkeepers |-> bookkeepers, SigData |-> sigs,
                               NewChainConfig |-> config],
                   prevHeader |-> [NextBookkeeper |-> AddressOf(<<1>>)],
                   vbftPeerInfo |-> 1..n, called |-> FALSE,
                   err |-> None, peers |-> {}]
       \/ \E next \in NextBookkeepers :
            /\ config = NoChainConfig
            /\ hdr = [consensusType |-> "dbft",
                      header |-> [Bookkeepers |-> bookkeepers,
                                  SigData |-> sigs, NewChainConfig |-> config],
                      prevHeader |-> [NextBookkeeper |-> next],
                      vbftPeerInfo |-> 1..2, called |-> FALSE,
                      err |-> None, peers |-> {}]

VerifyHeaderQuorum ==
  /\ hdr # Nil
  /\ ~hdr.called
  /\ LET r == verifyBookkeepers(hdr.consensusType, hdr.header, hdr.prevHeader,
                                hdr.vbftPeerInfo)
     IN hdr' = [hdr EXCEPT !.called = TRUE, !.err = r.err, !.peers = r.peers]
  /\ UNCHANGED <<ledgerVars, ex, xs, solo, mgmt, chainmgr>>

NextQuorum == VerifyHeaderQuorum

SpecQuorum == InitQuorum /\ [][NextQuorum]_vars

\* ---------------------------------------------------------------- C33
\* the entries of the header's Bookkeepers that made one of the signatures
Signers(header) ==
  {j \in 1..Len(header.Bookkeepers) :
     \E i \in 1..Len(header.SigData) :
       header.SigData[i] = header.Bookkeepers[j]}

\* C33: in vbft mode an accepted header has all its Bookkeepers in the peer
\* set of n peers and at least m = n - floor(6n/7) of them signed; in other
\* modes the address of the bookkeepers is the previous header's
\* NextBookkeeper and at least k - floor((k-1)/3) of the k bookkeepers
\* signed; a rejected header leaves the peer set as it was
C33_QuorumOfBookkeepers ==
  (hdr # Nil /\ hdr.called) =>
    LET n == Cardinality(hdr.vbftPeerInfo)
        k == Len(hdr.header.Bookkeepers)
    IN /\ (hdr.err = None /\ hdr.consensusType = "vbft") =>
            /\ Range(hdr.header.Bookkeepers) \subseteq hdr.vbftPeerInfo
            /\ k >= n - ((6 * n) \div 7)
            /\ Cardinality(Signers(hdr.header)) >= n - ((6 * n) \div 7)
       /\ (hdr.err = None /\ hdr.consensusType # "vbft") =>
            /\ k > 0
            /\ AddressOf(hdr.header.Bookkeepers) = hdr.prevHeader.NextBookkeeper
            /\ Cardinality(Signers(hdr.header)) >= k - ((k - 1) \div 3)
       /\ hdr.err # None => hdr.peers = hdr.vbftPeerInfo

\* a header of two bookkeepers is accepted by a peer set of eight peers,
\* whose threshold is two
C33_AcceptedByEightPeers ==
  /\ hdr # Nil
  /\ hdr.called
  /\ hdr.consensusType = "vbft"
  /\ Cardinality(hdr.vbftPeerInfo) = MaxPeers
  /\ hdr.err = None

\* ---------------------------------------------------------------- C34
\* a caller gets past getSavingBlockLock
Acquires(p) == pc[p] \notin InBody /\ pc'[p] \in InBody

\* a caller returns from ExecuteBlock or SubmitBlock, with or without error
Returns(p) == pc[p] \in InBody /\ pc'[p] = "returned"

\* C34: every acquisition of the admission gate takes the one token, every
\* return of ExecuteBlock and SubmitBlock, error returns included, finds
\* the gate held and releases it once (releaseSavingBlockLock never finds
\* the channel empty), no caller that returned leaves the gate held, and a
\* held gate is eventually free again for a caller that waits
C34_GateReleasedOnce ==
  /\ [][\A p \in Callers :
          /\ Acquires(p) => (savingBlockSemaphore = 0
                               /\ savingBlockSemaphore' = 1)
          /\ Returns(p) => (savingBlockSemaphore = 1
                              /\ savingBlockSemaphore' = 0)]_vars
  /\ []((\A p \in Callers : pc[p] \notin InBody) => savingBlockSemaphore = 0)
  /\ (savingBlockSemaphore = 1) ~> (savingBlockSemaphore = 0)

\* SubmitBlock has returned an error to one caller while the other caller
\* has got the gate after it
C34_AcquiredAfterErrorReturn ==
  \E p, q \in Callers :
    /\ p # q
    /\ pc[p] = "returned" /\ ret[p] \in ErrorReturns \ {"exec not next", "exec fault"}
    /\ pc[q] \in InBody
    /\ savingBlockSemaphore = 1

\* ===================================================================
\* The shard management contract: the states of a shard
\* ===================================================================
MaxSubShards == 1      \* number of shards that CreateShard creates
MaxMgmtHeight == 2     \* largest height of a block that invokes the contract
MaxNetworkMin == 2     \* largest NetworkMin of a ConfigShard parameter

\* the values of ShardState.State in their numerical order
ShardStateOrder ==
  <<"SHARD_STATE_CREATED", "SHARD_STATE_CONFIGURED", "SHARD_PEER_JOIND",
    "SHARD_STATE_ACTIVE">>

StateRank(state) == CHOOSE i \in 1..Len(ShardStateOrder) : ShardStateOrder[i] = state

\* the shard the contract runs on, native.ShardID
RootShard == 0
PeerPubKeys == {"peer1", "peer2"}

\* ShardMgmtInit has run in the block of height 0: the shard of the contract
\* is ACTIVE and the next sub-shard index is 1
InitMgmt ==
  /\ LedgerInit(stateHashCheckHeight)
  /\ ex = Nil
  /\ xs = Nil
  /\ solo = Nil
  /\ hdr = Nil
  /\ chainmgr = Nil
  /\ \E vbft \in BOOLEAN :
       mgmt = [vbft |-> vbft, Height |-> 0, NextSubShardIndex |-> 1,
               shards |-> Put(EmptyMap, RootShard,
                              [State |-> "SHARD_STATE_ACTIVE",
                               GenesisParentHeight |-> 0, NetworkSize |-> 0,
                               Peers |-> {}, quit |-> {}, quiting |-> {}]),
               peerState |-> [k \in {} |-> "default"],
               last |-> [name |-> None, shard |-> RootShard]]

getShardPeerState(shard, peer) ==
  IF <<shard, peer>> \in DOMAIN mgmt.peerState
  THEN mgmt.peerState[<<shard, peer>>] ELSE "default"

\* the transaction that invokes the contract: when the call returns an
\* error nothing that it wrote is kept; last is the last call that returned
\* without error in the block
Invoked(name, shard, ok, shards, peerState) ==
  /\ mgmt # Nil
  /\ mgmt' = IF ok
             THEN [mgmt EXCEPT !.last = [name |-> name, shard |-> shard],
                               !.shards = shards,
                               !.peerState = peerState,
                               !.NextSubShardIndex =
                                 IF name = "createShard" THEN @ + 1 ELSE @]
             ELSE mgmt
  /\ UNCHANGED <<ledgerVars, ex, xs, solo, hdr, chainmgr>>

\* the contract is invoked in the block of the next height
MgmtNextBlock ==
  /\ mgmt # Nil
  /\ mgmt.Height < MaxMgmtHeight
  /\ mgmt' = [mgmt EXCEPT !.Height = @ + 1,
                          !.last = [name |-> None, shard |-> RootShard]]
  /\ UNCHANGED <<ledgerVars, ex, xs, solo, hdr, chainmgr>>

\* a check of the state that every state passes
AnyShardState(state) == TRUE

\* ConfigShard: "shard state unmatch" unless configured or created
ConfigShardStateMatch(state) ==
  state \in {"SHARD_STATE_CONFIGURED", "SHARD_STATE_CREATED"}

\* external: witness, version and fee checks of the call
CreateShard(external) ==
  /\ mgmt # Nil
  /\ mgmt.NextSubShardIndex <= MaxSubShards
  /\ Invoked("createShard", mgmt.NextSubShardIndex, external,
             Put(mgmt.shards, mgmt.NextSubShardIndex,
                 [State |-> "SHARD_STATE_CREATED", GenesisParentHeight |-> 0,
                  NetworkSize |-> 0, Peers |-> {}, quit |-> {},
                  quiting |-> {}]),
             mgmt.peerState)

ConfigShard(sid, NetworkMin, external) ==
  /\ mgmt # Nil
  /\ sid \in DOMAIN mgmt.shards
  /\ LET shard == mgmt.shards[sid]
         ok == /\ ConfigShardStateMatch(shard.State)
               /\ sid # RootShard
               /\ NetworkMin >= 1
               /\ external
     IN Invoked("configShard", sid, ok,
                [mgmt.shards EXCEPT ![sid] =
                   [shard EXCEPT !.NetworkSize = NetworkMin,
                                 !.State = "SHARD_STATE_CONFIGURED"]],
                mgmt.peerState)

ApplyJoinShard(sid, peer, external) ==
  /\ mgmt # Nil
  /\ sid \in DOMAIN mgmt.shards
  /\ LET shard == mgmt.shards[sid]
         ok == /\ external
               /\ ~(StateRank(shard.State) < StateRank("SHARD_STATE_CONFIGURED"))
               /\ getShardPeerState(sid, peer) = "default"
     IN Invoked("applyJoinShard", sid, ok, mgmt.shards,
                Put(mgmt.peerState, <<sid, peer>>, "applied"))

ApproveJoinShard(sid, peers, external) ==
  /\ mgmt # Nil
  /\ sid \in DOMAIN mgmt.shards
  /\ LET ok == /\ external
               /\ \A peer \in peers : getShardPeerState(sid, peer) = "applied"
     IN Invoked("approveJoinShard", sid, ok, mgmt.shards,
                [k \in DOMAIN mgmt.peerState \cup {<<sid, peer>> : peer \in peers} |->
                   IF k[1] = sid /\ k[2] \in peers THEN "approved"
                   ELSE mgmt.peerState[k]])

JoinShard(sid, peer, external) ==
  /\ mgmt # Nil
  /\ sid \in DOMAIN mgmt.shards
  /\ LET shard == mgmt.shards[sid]
         isShardActivate == shard.State = "SHARD_STATE_ACTIVE"
         ok == /\ external
               /\ sid # RootShard
               /\ getShardPeerState(sid, peer) = "approved"
               /\ peer \notin shard.Peers
     IN Invoked("joinShard", sid, ok,
                [mgmt.shards EXCEPT ![sid] =
                   [shard EXCEPT !.Peers = @ \cup {peer},
                                 !.State = IF ~isShardActivate
                                           THEN "SHARD_PEER_JOIND" ELSE @]],
                Put(mgmt.peerState, <<sid, peer>>, "joined"))

\* consensus: the node type of the peer is CONSENSUS_NODE, else
\* CONDIDATE_NODE
ExitShard(sid, peer, consensus, external) ==
  /\ mgmt # Nil
  /\ sid \in DOMAIN mgmt.shards
  /\ LET shard == mgmt.shards[sid]
         ok == /\ external
               /\ peer \in shard.Peers
               /\ peer \notin shard.quit \cup shard.quiting
     IN Invoked("exitShard", sid, ok,
                [mgmt.shards EXCEPT ![sid] =
                   IF consensus THEN [shard EXCEPT !.quit = @ \cup {peer}]
                   ELSE [shard EXCEPT !.quiting = @ \cup {peer}]],
                mgmt.peerState)

ActivateShard(sid, external) ==
  /\ mgmt # Nil
  /\ sid \in DOMAIN mgmt.shards
  /\ LET shard == mgmt.shards[sid]
         ok == /\ external
               /\ shard.State = "SHARD_PEER_JOIND"
               /\ ~(mgmt.vbft /\ Cardinality(shard.Peers) < shard.NetworkSize)
               /\ sid # RootShard
     IN Invoked("activateShard", sid, ok,
                [mgmt.shards EXCEPT ![sid] =
                   [shard EXCEPT !.GenesisParentHeight = mgmt.Height,
                                 !.State = "SHARD_STATE_ACTIVE"]],
                mgmt.peerState)

CommitDpos(sid, external) ==
  /\ mgmt # Nil
  /\ sid \in DOMAIN mgmt.shards
  /\ LET shard == mgmt.shards[sid]
         ok == external /\ sid # RootShard
     IN Invoked("commitDpos", sid, ok,
                [mgmt.shards EXCEPT ![sid] =
                   [shard EXCEPT !.Peers = @ \ shard.quiting,
                                 !.quit = {},
                                 !.quiting = shard.quit]],
                [k \in DOMAIN mgmt.peerState |->
                   IF k[1] = sid /\ k[2] \in shard.quiting THEN "default"
                   ELSE mgmt.peerState[k]])

NextMgmt ==
  \/ MgmtNextBlock
  \/ \E external \in BOOLEAN : CreateShard(external)
  \/ \E sid \in 0..MaxSubShards, NetworkMin \in 0..MaxNetworkMin,
        external \in BOOLEAN : ConfigShard(sid, NetworkMin, external)
  \/ \E sid \in 0..MaxSubShards, peer \in PeerPubKeys, external \in BOOLEAN :
       ApplyJoinShard(sid, peer, external)
  \/ \E sid \in 0..MaxSubShards, peers \in SUBSET PeerPubKeys,
        external \in BOOLEAN : ApproveJoinShard(sid, peers, external)
  \/ \E sid \in 0..MaxSubShards, peer \in PeerPubKeys, external \in BOOLEAN :
       JoinShard(sid, peer, external)
  \/ \E sid \in 0..MaxSubShards, peer \in PeerPubKeys,
        consensus, external \in BOOLEAN :
       ExitShard(sid, peer, consensus, external)
  \/ \E sid \in 0..MaxSubShards, external \in BOOLEAN :
       ActivateShard(sid, external)
  \/ \E sid \in 0..MaxSubShards, external \in BOOLEAN :
       CommitDpos(sid, external)

SpecMgmt == InitMgmt /\ [][NextMgmt]_vars

\* ---------------------------------------------------------------- C35
\* the call returned without error and was made on the shard
Succeeded(name, s) ==
  /\ mgmt' # mgmt
  /\ mgmt'.last = [name |-> name, shard |-> s]

\* C35: the State of a shard changes only from CREATED to CONFIGURED, from
\* CONFIGURED to PEER_JOIND and from PEER_JOIND to ACTIVE; ConfigShard
\* succeeds only in CREATED or CONFIGURED, JoinShard leaves a non-active
\* shard in PEER_JOIND and an ACTIVE shard ACTIVE, ActivateShard succeeds
\* only in PEER_JOIND and leaves the shard ACTIVE with GenesisParentHeight
\* the height of the executing block
C35_ShardStateOrder ==
  [][mgmt # Nil =>
       \A s \in DOMAIN mgmt.shards :
         LET old == mgmt.shards[s]
             new == mgmt'.shards[s]
         IN /\ old.State # new.State =>
                 <<old.State, new.State>> \in
                   {<<"SHARD_STATE_CREATED", "SHARD_STATE_CONFIGURED">>,
                    <<"SHARD_STATE_CONFIGURED", "SHARD_PEER_JOIND">>,
                    <<"SHARD_PEER_JOIND", "SHARD_STATE_ACTIVE">>}
            /\ Succeeded("configShard", s) =>
                 old.State \in {"SHARD_STATE_CREATED", "SHARD_STATE_CONFIGURED"}
            /\ Succeeded("joinShard", s) =>
                 new.State = IF old.State = "SHARD_STATE_ACTIVE"
                             THEN "SHARD_STATE_ACTIVE" ELSE "SHARD_PEER_JOIND"
            /\ Succeeded("activateShard", s) =>
                 /\ old.State = "SHARD_PEER_JOIND"
                 /\ new.State = "SHARD_STATE_ACTIVE"
                 /\ new.GenesisParentHeight = mgmt.Height
            /\ old.State = "SHARD_STATE_ACTIVE" =>
                 new.State = "SHARD_STATE_ACTIVE"]_vars

\* a shard has been activated in a block above the block that created it
\* and a peer has joined it since
C35_JoinedWhileActive ==
  /\ mgmt # Nil
  /\ \E s \in DOMAIN mgmt.shards :
       /\ s # RootShard
       /\ mgmt.shards[s].State = "SHARD_STATE_ACTIVE"
       /\ mgmt.shards[s].GenesisParentHeight > 0
       /\ mgmt.last = [name |-> "joinShard", shard |-> s]

\* ---------------------------------------------------------------- C36
\* headers a peer may hand to AddHeader: of the next header height and of
\* other heights, acceptable and defective, with and without a new chain
\* configuration
OfferedHeaders ==
  UNION {HeadersOf(h) \cup {WithChainConfig([Header |-> hd], NewPeers).Header :
                              hd \in HeadersOf(h)} : h \in 1..MaxHeight}

\* C36: AddHeader accepts a header only of the current header height + 1
\* and only when verifyHeader accepts it, and a rejected header leaves
\* headerIndex, headerCache and the peer set of the header path unchanged;
\* headerIndex maps the heights from 0 to the current header height without
\* a gap, and the current block height is at most the current header height
C36_HeadersInSequence ==
  boot # "down" =>
    /\ \A header \in OfferedHeaders :
         LET o == AddHeaderOutcome(header)
         IN /\ o.err = None =>
                 /\ header.Height = GetCurrentHeaderHeight + 1
                 /\ verifyHeader(header) = None
            /\ o.err # None =>
                 /\ o.headerIndex = headerIndex
                 /\ o.headerCache = headerCache
                 /\ o.vbftPeerInfoheader = vbftPeerInfoheader
    /\ DOMAIN headerIndex = 0..GetCurrentHeaderHeight
    /\ GetCurrentBlockHeight <= GetCurrentHeaderHeight

\* a header of height 2 has been accepted ahead of the blocks, and a header
\* with a new chain configuration and an invalid signature is on offer
C36_HeaderAheadOfBlocks ==
  /\ boot = "running"
  /\ GetCurrentHeaderHeight = MaxHeight
  /\ GetCurrentBlockHeight = 0
  /\ headerCache # EmptyMap
  /\ \E header \in OfferedHeaders :
       /\ header.NewChainConfig # NoChainConfig
       /\ header.Height = GetCurrentHeaderHeight
       /\ AddHeaderOutcome(header).err # None

\* ---------------------------------------------------------------- C37
\* B is the block stored at its height, and the state store holds the state
\* of B's write-set
StoredWithState(B, result) ==
  /\ GetBlockByHeight(B.Header.Height)' = B
  /\ stateStore'.CurrHash = Hash(B.Header)
  /\ result.WriteSet # <<>> => stateStore'.State = result.WriteSet

NothingToCommit(result) ==
  /\ result.WriteSet = <<>>
  /\ result.Hash = UINT256_EMPTY
  /\ result.MerkleRoot = UINT256_EMPTY
  /\ result.ShardNotify = <<>>

\* the block carries a transaction of the wrong kind for its place
CarriesWrongKind(block) ==
  \/ \E id \in DOMAIN block.ShardTxs : \E i \in 1..Len(block.ShardTxs[id]) :
       block.ShardTxs[id][i].TxType # "ShardCall"
  \/ \E i \in 1..Len(block.Transactions) :
       block.Transactions[i].TxType = "ShardCall"

\* C38: executeBlock returns an error at a ShardCall transaction of
\* block.Transactions and at a transaction of another type of
\* block.ShardTxs, without handling it and with a result that has no
\* write-set, hash or state root; no execution of a block that carries such
\* a transaction comes to its end, and the state store is left as it was
C38_WrongKindRejectsBlock ==
  /\ [][\A r \in Runs :
          (Handles(r) /\ WrongKind(r)) =>
            /\ Aborts(r)
            /\ ex'.run[r].err = "handleTransaction failed"
            /\ ex'.run[r].handled = ex.run[r].handled
            /\ NothingToCommit(ex'.run[r].result)
            /\ UNCHANGED stateStore]_vars
  /\ [](ex # Nil =>
          \A r \in Runs :
            /\ ex.run[r].pc = "done" => ~CarriesWrongKind(ex.block)
            /\ (Finished(r) /\ CarriesWrongKind(ex.block)) =>
                 NothingToCommit(ex.run[r].result))

\* executeBlock has handled a transaction of the block and has then
\* returned the error at a ShardCall transaction of block.Transactions
C38_RejectedAfterHandling ==
  /\ ex # Nil
  /\ \E r \in Runs :
       /\ ex.run[r].pc = "error"
       /\ ex.run[r].err = "handleTransaction failed"
       /\ Len(ex.run[r].handled) > 0
       /\ ex.run[r].i < Len(ex.block.Transactions)
       /\ ex.block.Transactions[ex.run[r].i + 1].TxType = "ShardCall"

\* ===================================================================
\* The ChainManager: Initialize, its two event loops and Close
\* ===================================================================
MaxChannelMsgs == 2    \* messages delivered to each channel of the manager

\* localEventLoop reads localBlockMsgC, crossShardEventLoop crossShardMsgC
EventLoops == {"localEventLoop", "crossShardEventLoop"}

\* Initialize has returned: both loops are started with a go statement and
\* have not run yet, quitC is open and the wait group counts nothing
InitChainMgr ==
  /\ LedgerInit(stateHashCheckHeight)
  /\ ex = Nil
  /\ xs = Nil
  /\ solo = Nil
  /\ hdr = Nil
  /\ mgmt = Nil
  /\ chainmgr = [loop |-> [l \in EventLoops |-> "started"],
                 quitWg |-> 0, quitC |-> "open", close |-> "idle",
                 channel |-> [l \in EventLoops |-> 0],
                 sent |-> [l \in EventLoops |-> 0],
                 handled |-> [l \in EventLoops |-> 0]]

ChainMgrStep(next) ==
  /\ chainmgr # Nil
  /\ chainmgr' = next
  /\ UNCHANGED <<ledgerVars, ex, xs, solo, hdr, mgmt>>

\* the goroutine of the loop gets to run: its first statement is
\* quitWg.Add(1)
LoopBegins(l) ==
  /\ chainmgr # Nil
  /\ chainmgr.loop[l] = "started"
  /\ ChainMgrStep([chainmgr EXCEPT !.loop[l] = "selecting",
                                   !.quitWg = @ + 1])

\* the ledger or the network puts a message into the channel of a loop
DeliverMsg(l) ==
  /\ chainmgr # Nil
  /\ chainmgr.sent[l] < MaxChannelMsgs
  /\ ChainMgrStep([chainmgr EXCEPT !.channel[l] = @ + 1, !.sent[l] = @ + 1])

\* the select of the loop takes a message from its channel; when quitC is
\* closed as well, select takes either case
LoopHandles(l) ==
  /\ chainmgr # Nil
  /\ chainmgr.loop[l] = "selecting"
  /\ chainmgr.channel[l] > 0
  /\ ChainMgrStep([chainmgr EXCEPT !.channel[l] = @ - 1,
                                   !.handled[l] = @ + 1])

\* the select of the loop finds quitC closed: the loop returns and the
\* deferred quitWg.Done runs
LoopQuits(l) ==
  /\ chainmgr # Nil
  /\ chainmgr.loop[l] = "selecting"
  /\ chainmgr.quitC = "closed"
  /\ ChainMgrStep([chainmgr EXCEPT !.loop[l] = "exited", !.quitWg = @ - 1])

\* Close: close(quitC), then quitWg.Wait()
CloseCalled ==
  /\ chainmgr # Nil
  /\ chainmgr.close = "idle"
  /\ ChainMgrStep([chainmgr EXCEPT !.quitC = "closed", !.close = "waiting"])

\* quitWg.Wait returns when the counter of the wait group is zero
WaitReturns(quitWg) == quitWg = 0

CloseReturns ==
  /\ chainmgr # Nil
  /\ chainmgr.close = "waiting"
  /\ WaitReturns(chainmgr.quitWg)
  /\ ChainMgrStep([chainmgr EXCEPT !.close = "returned"])

NextChainMgr ==
  \/ \E l \in EventLoops : LoopBegins(l)
  \/ \E l \in EventLoops : DeliverMsg(l)
  \/ \E l \in EventLoops : LoopHandles(l)
  \/ \E l \in EventLoops : LoopQuits(l)
  \/ CloseCalled
  \/ CloseReturns

SpecChainMgr == InitChainMgr /\ [][NextChainMgr]_vars

\* ---------------------------------------------------------------- C39
\* C39: when Close has returned, localEventLoop and crossShardEventLoop
\* have both exited, also when Close is called before the goroutines of the
\* loops have run
C39_CloseAfterLoopsExit ==
  (chainmgr # Nil /\ chainmgr.close = "returned")
    => \A l \in EventLoops : chainmgr.loop[l] = "exited"

\* ---------------------------------------------------------------- C40
MaxGenesisParentHeight == 1   \* largest ParentHeight of the genesis header

\* NewSoloService of a shard created at some height of the parent chain, on a
\* node whose parent ledger may not have reached that height yet
InitSoloBehind ==
  \E parentHeight \in 0..MaxGenesisParentHeight :
    \E ledgerParentHeight \in 0..parentHeight :
      NewSoloService(parentHeight, ledgerParentHeight)

SpecSoloBehind == InitSoloBehind /\ [][NextSolo]_vars

\* the smaller of the parent height of the ledger and the ParentHeight the
\* service holds plus ParentHeightIncrement
MinParentHeight ==
  IF solo.ledgerParentHeight <= solo.parentHeight + ParentHeightIncrement
  THEN solo.ledgerParentHeight
  ELSE solo.parentHeight + ParentHeightIncrement

\* the current block of the ledger becomes a higher one
Commits == GetCurrentBlockHeight' > GetCurrentBlockHeight

\* C40: every block the solo service proposes has as ParentHeight the
\* smaller of the parent height of the ledger and the service's parentHeight
\* plus ParentHeightIncrement; while that value is below the service's
\* parentHeight no block is proposed or executed; a block that is committed
\* is the proposed one and its ParentHeight is at least the service's
\* parentHeight and at most ParentHeightIncrement above it; and the
\* service's parentHeight changes only after SubmitBlock has made its block
\* the current block of the ledger, to the ParentHeight of that block, so
\* the ParentHeight of successively committed blocks never decreases and
\* grows by at most ParentHeightIncrement
C40_ParentHeightInOrder ==
  /\ [][Proposes => solo'.block.ParentHeight = MinParentHeight]_vars
  /\ [][solo.stage = "idle" /\ MinParentHeight < solo.parentHeight =>
          /\ solo'.stage = "idle"
          /\ pc'["solo"] = "idle"
          /\ ~Commits]_vars
  /\ [][Commits =>
          /\ solo.stage = "proposed"
          /\ GetCurrentBlockHash' = Hash(solo.block.Block.Header)
          /\ solo.block.ParentHeight >= solo.parentHeight
          /\ solo.block.ParentHeight
               <= solo.parentHeight + ParentHeightIncrement]_vars
  /\ [][solo'.parentHeight # solo.parentHeight =>
          /\ solo.stage = "broadcast"
          /\ GetCurrentBlockHash = Hash(solo.block.Block.Header)
          /\ solo'.parentHeight = solo.block.ParentHeight]_vars

\* the second block the service commits has a ParentHeight that is
\* ParentHeightIncrement above that of the first and still below the parent
\* height of the ledger
C40_SecondBlockOneStepUp ==
  /\ solo # Nil
  /\ solo.stage = "broadcast"
  /\ GetCurrentBlockHeight = MaxHeight
  /\ solo.block.ParentHeight = solo.parentHeight + ParentHeightIncrement
  /\ solo.block.ParentHeight < solo.ledgerParentHeight

\* the parent ledger is behind the ParentHeight of the current header while
\* the timer of the service runs
C40_ParentLedgerBehind ==
  /\ solo # Nil
  /\ solo.started /\ solo.stage = "idle"
  /\ MinParentHeight < solo.parentHeight

====
